---- MODULE Spec2Model ----
(***************************************************************************)
(* Student-Copilot: the matching and scoring engine of server/storage.ts   *)
(* (SupabaseStorage, the MemStorage kept beside it, and the older          *)
(* MemStorage that ends the file) together with the HTTP handlers of       *)
(* server/routes.ts that call it.                                          *)
(*                                                                         *)
(* Strings are TLA+ strings; Chars gives the spelling of every string the  *)
(* model uses, so that toLowerCase and includes are computed on            *)
(* characters.  A JS value that may be null or undefined where an array is *)
(* expected is a record [kind, items].  impl tells which of the three      *)
(* storage classes the exported storage object is an instance of.          *)
(***************************************************************************)
EXTENDS Integers, Sequences, FiniteSets, TLC

VARIABLES impl, students, internships, projects, resp, race, wizard, finder, feed

\* What the handlers that answer one request at a time leave alone: the
\* profile writes in flight together, the onboarding page and the
\* internship finder page of the client, and the real-time subscription.
rest == <<race, wizard, finder, feed>>

vars == <<impl, students, internships, projects, resp, rest>>

----------------------------------------------------------------------------
(* Bounds *)

\* Longest skills array a request body carries.
MaxSkills == 2

\* Most rows of the internships table and of the projects table.
MaxCatalog == 3

\* Profile writes in flight together.
MaxRequests == 2

----------------------------------------------------------------------------
(* Strings *)

Chars ==
     ("React" :> <<"R", "e", "a", "c", "t">>)
     @@ ("A" :> <<"A">>)
     @@ ("Asha" :> <<"A", "s", "h", "a">>)
     @@ ("asha" :> <<"a", "s", "h", "a">>)
     @@ ("asha@example.com" :> <<"a", "s", "h", "a", "@", "e", "x", "a", "m", "p", "l",
                                 "e", ".", "c", "o", "m">>)
     @@ ("react" :> <<"r", "e", "a", "c", "t">>)
     @@ ("JavaScript" :> <<"J", "a", "v", "a", "S", "c", "r", "i", "p", "t">>)
     @@ ("Java" :> <<"J", "a", "v", "a">>)
     @@ ("Linux" :> <<"L", "i", "n", "u", "x">>)
     @@ ("Docker" :> <<"D", "o", "c", "k", "e", "r">>)
     @@ ("CSS" :> <<"C", "S", "S">>)
     @@ ("HTML" :> <<"H", "T", "M", "L">>)
     @@ ("Node.js" :> <<"N", "o", "d", "e", ".", "j", "s">>)
     @@ ("MongoDB" :> <<"M", "o", "n", "g", "o", "D", "B">>)
     @@ ("APIs" :> <<"A", "P", "I", "s">>)
     @@ ("Express" :> <<"E", "x", "p", "r", "e", "s", "s">>)
     @@ ("Python" :> <<"P", "y", "t", "h", "o", "n">>)
     @@ ("TensorFlow" :> <<"T", "e", "n", "s", "o", "r", "F", "l", "o", "w">>)
     @@ ("SQL" :> <<"S", "Q", "L">>)
     @@ ("Remote" :> <<"R", "e", "m", "o", "t", "e">>)
     @@ ("remote" :> <<"r", "e", "m", "o", "t", "e">>)
     @@ ("Bangalore" :> <<"B", "a", "n", "g", "a", "l", "o", "r", "e">>)
     @@ ("Frontend Developer Intern" :> <<"F", "r", "o", "n", "t", "e", "n", "d", " ",
           "D", "e", "v", "e", "l", "o", "p", "e", "r", " ", "I", "n", "t", "e", "r",
           "n">>)
     @@ ("TechCorp Solutions" :> <<"T", "e", "c", "h", "C", "o", "r", "p", " ", "S", "o",
           "l", "u", "t", "i", "o", "n", "s">>)
     @@ ("15000" :> <<"1", "5", "0", "0", "0">>)
     @@ ("Build modern web applications using React and JavaScript" :> <<"B", "u", "i",
           "l", "d", " ", "m", "o", "d", "e", "r", "n", " ", "w", "e", "b", " ", "a",
           "p", "p", "l", "i", "c", "a", "t", "i", "o", "n", "s", " ", "u", "s", "i",
           "n", "g", " ", "R", "e", "a", "c", "t", " ", "a", "n", "d", " ", "J", "a",
           "v", "a", "S", "c", "r", "i", "p", "t">>)
     @@ ("ML Engineer Intern" :> <<"M", "L", " ", "E", "n", "g", "i", "n", "e", "e", "r",
           " ", "I", "n", "t", "e", "r", "n">>)
     @@ ("DataTech Labs" :> <<"D", "a", "t", "a", "T", "e", "c", "h", " ", "L", "a", "b",
           "s">>)
     @@ ("25000" :> <<"2", "5", "0", "0", "0">>)
     @@ ("Work on machine learning projects and data analysis" :> <<"W", "o", "r", "k",
           " ", "o", "n", " ", "m", "a", "c", "h", "i", "n", "e", " ", "l", "e", "a",
           "r", "n", "i", "n", "g", " ", "p", "r", "o", "j", "e", "c", "t", "s", " ",
           "a", "n", "d", " ", "d", "a", "t", "a", " ", "a", "n", "a", "l", "y", "s",
           "i", "s">>)
     @@ ("Backend Developer" :> <<"B", "a", "c", "k", "e", "n", "d", " ", "D", "e", "v",
           "e", "l", "o", "p", "e", "r">>)
     @@ ("StartupXYZ" :> <<"S", "t", "a", "r", "t", "u", "p", "X", "Y", "Z">>)
     @@ ("20000" :> <<"2", "0", "0", "0", "0">>)
     @@ ("Develop scalable backend services and APIs" :> <<"D", "e", "v", "e", "l", "o",
           "p", " ", "s", "c", "a", "l", "a", "b", "l", "e", " ", "b", "a", "c", "k",
           "e", "n", "d", " ", "s", "e", "r", "v", "i", "c", "e", "s", " ", "a", "n",
           "d", " ", "A", "P", "I", "s">>)
     @@ ("DEVELOPER" :> <<"D", "E", "V", "E", "L", "O", "P", "E", "R">>)
     @@ ("5000" :> <<"5", "0", "0", "0">>)
     @@ ("_" :> <<"_">>)
     @@ ("" :> <<>>)

UpperToLower ==
     ("A" :> "a") @@ ("B" :> "b") @@ ("C" :> "c") @@ ("D" :> "d") @@ ("E" :> "e")
     @@ ("F" :> "f") @@ ("G" :> "g") @@ ("H" :> "h") @@ ("I" :> "i") @@ ("J" :> "j")
     @@ ("K" :> "k") @@ ("L" :> "l") @@ ("M" :> "m") @@ ("N" :> "n") @@ ("O" :> "o")
     @@ ("P" :> "p") @@ ("Q" :> "q") @@ ("R" :> "r") @@ ("S" :> "s") @@ ("T" :> "t")
     @@ ("U" :> "u") @@ ("V" :> "v") @@ ("W" :> "w") @@ ("X" :> "x") @@ ("Y" :> "y")
     @@ ("Z" :> "z")

\* String.prototype.toLowerCase, on the spelling of s.
toLowerCase(s) ==
    [i \in DOMAIN Chars[s] |->
        IF Chars[s][i] \in DOMAIN UpperToLower THEN UpperToLower[Chars[s][i]]
                                               ELSE Chars[s][i]]

\* String.prototype.includes on spellings: b occurs in a as a substring.
includes(a, b) ==
    \E k \in 0..(Len(a) - Len(b)) : SubSeq(a, k + 1, k + Len(b)) = b

----------------------------------------------------------------------------
(* Arrays *)

\* A JS array value, and null/undefined where an array is expected.
Arr(items) == [kind |-> "array", items |-> items]
Null == [kind |-> "null", items |-> <<>>]
Undefined == [kind |-> "undefined", items |-> <<>>]

\* Array.isArray(v)
isArray(v) == v.kind = "array"

\* `v || []`: an array (empty or not) is truthy, null and undefined are not.
OrEmpty(v) == IF isArray(v) THEN v.items ELSE <<>>

\* The members of `new Set(list)`.
SetOf(list) == {list[i] : i \in DOMAIN list}

\* Array.from(new Set(list)): first occurrences, in insertion order.
ArrayFromSet(list) ==
    LET first == SelectSeq([i \in DOMAIN list |-> <<i, list[i]>>],
                           LAMBDA p : \A j \in 1..(p[1] - 1) : list[j] # p[2])
    IN  [k \in DOMAIN first |-> first[k][2]]

RECURSIVE SortIdx(_, _)
\* Array.prototype.sort((a, b) => key(b) - key(a)) as the stable insertion sort
\* the engine runs on short arrays: the indices 1..n of keys in sorted order.
SortIdx(keys, n) ==
    IF n = 0 THEN <<>>
    ELSE LET s == SortIdx(keys, n - 1)
             p == Cardinality({j \in DOMAIN s : keys[s[j]] >= keys[n]})
         IN  SubSeq(s, 1, p) \o <<n>> \o SubSeq(s, p + 1, Len(s))

\* Mutant: the sort puts a later element ahead of the earlier ones it ties with.
SortDesc_Unstable(items, keys) ==
    LET rank(i) == Cardinality({j \in DOMAIN items :
                        keys[j] > keys[i] \/ (keys[j] = keys[i] /\ j > i)}) + 1
    IN  [p \in DOMAIN items |-> items[CHOOSE i \in DOMAIN items : rank(i) = p]]

SortDesc(items, keys) ==
    LET idx == SortIdx(keys, Len(items))
    IN  [p \in DOMAIN items |-> items[idx[p]]]

\* All sequences over S of length 0..n.
SeqsUpTo(S, n) == UNION {[1..k -> S] : k \in 0..n}

----------------------------------------------------------------------------
(* Data *)

Impls == {"supabase", "mem", "memOld"}

\* Ids a request may name; crypto.randomUUID() / gen_random_uuid() returns NewIds.
StudentIds == {"s1", "s2"}
NewIds == {"s1"}

\* Skill names a profile carries: those the internship matcher is checked
\* on, those the skill-gap analyzer is checked on.
MatchSkills == {"React", "react", "JavaScript", "Java"}
GapSkills == {"Linux", "React", "Docker"}
SkillPool == MatchSkills \cup GapSkills

\* The skills value of a request body: an array of strings, null, or absent.
SkillsInputs == {Arr(l) : l \in SeqsUpTo(SkillPool, MaxSkills)} \cup {Null, Undefined}

NoStudent ==
    [found |-> FALSE, id |-> "", name |-> "", email |-> "", skills |-> Null,
     interests |-> Null]

\* A row of the students table (year left out: no operation reads it).
StudentRow(id, name, email, skills, interests) ==
    [found |-> TRUE, id |-> id, name |-> name, email |-> email, skills |-> skills,
     interests |-> interests]

\* The student with the skills given, as onboarding without interests
\* leaves her.
Student(id, skills) == StudentRow(id, "Asha", "asha@example.com", skills, Arr(<<>>))

\* requiredSkills of a row of the internships table (jsonb, nullable).
ReqPool ==
    { Null,
      Arr(<<"React", "JavaScript", "CSS", "HTML">>),
      Arr(<<"Node.js", "MongoDB">>),
      Arr(<<"React">>),
      Arr(<<"JavaScript", "JavaScript">>) }

\* A row of the internships table.
InternshipRow(id, title, company, location, stipend, requiredSkills, description) ==
    [id |-> id, title |-> title, company |-> company, location |-> location,
     stipend |-> stipend, requiredSkills |-> requiredSkills,
     description |-> description]

\* A row with the location and skills given; its other columns, which the
\* matcher does not read, are those of the first sample internship.
Internship(id, location, requiredSkills) ==
    InternshipRow(id, "Frontend Developer Intern", "TechCorp Solutions", location,
                  "15000", requiredSkills,
                  "Build modern web applications using React and JavaScript")

\* Tables of the database, rows in ascending id.
InternshipTables ==
    UNION {{[i \in 1..n |-> Internship(i, "Remote", f[i])] : f \in [1..n -> ReqPool]}
           : n \in 0..MaxCatalog}

\* MemStorage.initializeSampleData: the internships, in insertion order.
sampleInternships ==
    << InternshipRow(1, "Frontend Developer Intern", "TechCorp Solutions", "Remote",
                     "15000", Arr(<<"React", "JavaScript", "CSS", "HTML">>),
                     "Build modern web applications using React and JavaScript"),
       InternshipRow(2, "ML Engineer Intern", "DataTech Labs", "Bangalore",
                     "25000", Arr(<<"Python", "TensorFlow", "SQL">>),
                     "Work on machine learning projects and data analysis"),
       InternshipRow(3, "Backend Developer", "StartupXYZ", "Remote",
                     "20000", Arr(<<"Node.js", "MongoDB", "APIs", "Express">>),
                     "Develop scalable backend services and APIs") >>

\* The older MemStorage.initializeSampleData.
oldSampleInternships ==
    << InternshipRow(1, "Frontend Developer Intern", "TechCorp Solutions", "Remote",
                     "₹15,000 - ₹25,000", Arr(<<"React", "JavaScript", "CSS">>),
                     "Build modern web applications using React and JavaScript"),
       InternshipRow(2, "ML Engineer Intern", "DataTech Labs", "Bangalore",
                     "₹20,000 - ₹30,000", Arr(<<"Python", "TensorFlow", "SQL">>),
                     "Work on machine learning projects and data analysis"),
       InternshipRow(3, "Backend Developer", "StartupXYZ", "Remote",
                     "₹18,000 - ₹28,000", Arr(<<"Node.js", "MongoDB", "APIs">>),
                     "Develop scalable backend services and APIs") >>

----------------------------------------------------------------------------
(* Storage reads *)

Reverse(s) == [i \in DOMAIN s |-> s[Len(s) + 1 - i]]

\* getStudent: SupabaseStorage answers undefined when the query fails.
getStudent(im, store, id, fail) ==
    IF im = "supabase" /\ fail THEN NoStudent ELSE store[id]

\* getInternships: SupabaseStorage orders by id descending and answers []
\* when the query fails; MemStorage lists its map in insertion order.
getInternships(im, table, fail) ==
    IF im = "supabase"
    THEN IF fail THEN <<>> ELSE Reverse(table)
    ELSE table

----------------------------------------------------------------------------
(* Internship matcher *)

WithMatch(internship, score) ==
    [id |-> internship.id, title |-> internship.title, company |-> internship.company,
     location |-> internship.location, stipend |-> internship.stipend,
     requiredSkills |-> internship.requiredSkills,
     description |-> internship.description, matchScore |-> score]

\* Mutant: skills are compared after toLowerCase.
matchingSkillCount_IgnoreCase(studentSkills, internship) ==
    Len(SelectSeq(OrEmpty(internship.requiredSkills),
                  LAMBDA skill : \E s \in studentSkills :
                                    toLowerCase(s) = toLowerCase(skill)))

\* matchingSkillCount of SupabaseStorage.findInternships.
matchingSkillCount(studentSkills, internship) ==
    Len(SelectSeq(OrEmpty(internship.requiredSkills),
                  LAMBDA skill : skill \in studentSkills))

\* Mutant: the filter on matchScore > 0 is missing.
SupabaseStorage_findInternships_NoFilter(student, allInternships) ==
    IF ~student.found THEN <<>>
    ELSE LET studentSkills == SetOf(OrEmpty(student.skills))
             mapped == [i \in DOMAIN allInternships |->
                          WithMatch(allInternships[i],
                                    matchingSkillCount(studentSkills, allInternships[i]))]
         IN  SortDesc(mapped, [i \in DOMAIN mapped |-> mapped[i].matchScore])

\* SupabaseStorage.findInternships, after its two reads.
SupabaseStorage_findInternships(student, allInternships) ==
    IF ~student.found THEN <<>>
    ELSE LET studentSkills == SetOf(OrEmpty(student.skills))
             mapped == [i \in DOMAIN allInternships |->
                          WithMatch(allInternships[i],
                                    matchingSkillCount(studentSkills, allInternships[i]))]
             kept == SelectSeq(mapped, LAMBDA x : x.matchScore > 0)
         IN  SortDesc(kept, [i \in DOMAIN kept |-> kept[i].matchScore])

\* Mutant: an unknown student gets the whole catalog, as the older
\* getRecommendedProjects does.
MemStorage_findInternships_UnknownGetsAll(student, all) ==
    IF ~student.found THEN [i \in DOMAIN all |-> WithMatch(all[i], 0)]
    ELSE LET studentSkills == SetOf(OrEmpty(student.skills))
             mapped == [i \in DOMAIN all |->
                          WithMatch(all[i],
                              Len(SelectSeq(OrEmpty(all[i].requiredSkills),
                                            LAMBDA skill : skill \in studentSkills)))]
             kept == SelectSeq(mapped, LAMBDA x : x.matchScore > 0)
         IN  SortDesc(kept, [i \in DOMAIN kept |-> kept[i].matchScore])

\* MemStorage.findInternships, after its two reads.
MemStorage_findInternships(student, all) ==
    IF ~student.found THEN <<>>
    ELSE LET studentSkills == SetOf(OrEmpty(student.skills))
             mapped == [i \in DOMAIN all |->
                          WithMatch(all[i],
                              Len(SelectSeq(OrEmpty(all[i].requiredSkills),
                                            LAMBDA skill : skill \in studentSkills)))]
             kept == SelectSeq(mapped, LAMBDA x : x.matchScore > 0)
         IN  SortDesc(kept, [i \in DOMAIN kept |-> kept[i].matchScore])

\* Math.round(m / r * 100) for integers m >= 0, r > 0.
RoundPercent(m, r) == (200 * m + r) \div (2 * r)

\* Values of Math.floor(Math.random() * 15) the model draws.
BonusDraws == {0, 7, 14}

\* A Math.min that lets its first argument through.
Min_Uncapped(a, b) == a

\* Math.min(a, b)
Min(a, b) == IF a < b THEN a ELSE b

\* The older matcher with a random bonus twice as wide.
OldMemStorage_findInternships_WideBonus(student, all, draws) ==
    IF ~student.found THEN <<>>
    ELSE LET studentSkills == OrEmpty(student.skills)
             score(i) ==
                LET requiredSkills == OrEmpty(all[i].requiredSkills)
                    matchingSkills ==
                        SelectSeq(studentSkills, LAMBDA skill :
                            \E r \in DOMAIN requiredSkills :
                                \/ includes(toLowerCase(requiredSkills[r]), toLowerCase(skill))
                                \/ includes(toLowerCase(skill), toLowerCase(requiredSkills[r])))
                    matchScore == IF Len(requiredSkills) > 0
                                  THEN RoundPercent(Len(matchingSkills), Len(requiredSkills))
                                  ELSE 75
                IN  Min(matchScore + 2 * draws[i], 100)
             mapped == [i \in DOMAIN all |-> WithMatch(all[i], score(i))]
         IN  SortDesc(mapped, [i \in DOMAIN mapped |-> mapped[i].matchScore])

\* The older MemStorage.findInternships; draws[i] is the random bonus of the
\* i-th internship.
OldMemStorage_findInternships(student, all, draws) ==
    IF ~student.found THEN <<>>
    ELSE LET studentSkills == OrEmpty(student.skills)
             score(i) ==
                LET requiredSkills == OrEmpty(all[i].requiredSkills)
                    matchingSkills ==
                        SelectSeq(studentSkills, LAMBDA skill :
                            \E r \in DOMAIN requiredSkills :
                                \/ includes(toLowerCase(requiredSkills[r]), toLowerCase(skill))
                                \/ includes(toLowerCase(skill), toLowerCase(requiredSkills[r])))
                    matchScore == IF Len(requiredSkills) > 0
                                  THEN RoundPercent(Len(matchingSkills), Len(requiredSkills))
                                  ELSE 75
                IN  Min(matchScore + draws[i], 100)
             mapped == [i \in DOMAIN all |-> WithMatch(all[i], score(i))]
         IN  SortDesc(mapped, [i \in DOMAIN mapped |-> mapped[i].matchScore])

----------------------------------------------------------------------------
(* The last request and its answer *)

\* A SkillGapAnalysis not yet filled in.
NoReport ==
    [targetRole |-> "", currentSkills |-> Undefined, missingSkills |-> Undefined,
     learningPlan |-> [weeks |-> <<>>]]

\* What the call before this one read and returned, when the request
\* repeats a call.
NoPrevious == [called |-> FALSE, student |-> NoStudent, catalog |-> <<>>, list |-> <<>>]

\* A request body of POST /api/find-internships. studentId "" stands for an
\* absent (falsy) one; profile and filters are objects or absent.
NoProfile == [present |-> FALSE, skills |-> Undefined]
NoFilters == [present |-> FALSE, location |-> "", remote |-> "undefined"]
Body(studentId, profile, filters) ==
    [studentId |-> studentId, profile |-> profile, filters |-> filters]

NoResp ==
    [route |-> "", op |-> "none", studentId |-> "", targetRole |-> "",
     student |-> NoStudent, catalog |-> <<>>,
     threw |-> FALSE, error |-> "", list |-> <<>>, report |-> NoReport,
     status |-> 0, success |-> FALSE, httpError |-> "", previous |-> NoPrevious,
     query |-> "", filters |-> [present |-> FALSE, location |-> "", minStipend |-> ""],
     body |-> [name |-> Undefined, email |-> Undefined, skills |-> Undefined,
               interests |-> Undefined],
     failed |-> {}, posted |-> Body("", NoProfile, NoFilters)]

\* The tables whose query failed while the request was served: students,
\* and the catalog table the call reads.
FailedReads(failStudent, failCatalog, table) ==
    (IF failStudent THEN {"students"} ELSE {}) \cup (IF failCatalog THEN {table} ELSE {})

\* res.json(...): status 200 with success: true.
JsonSuccess(r) == [r EXCEPT !.status = 200, !.success = TRUE]

\* res.status(code).json({ success: false, error })
JsonFailure(r, code, error) ==
    [r EXCEPT !.status = code, !.success = FALSE, !.httpError = error]

\* A route that answers an undefined student as it answers a found one.
StudentNotFound_Unchecked(r) == JsonSuccess(r)

\* if (!student) return res.status(404).json({ success: false, error:
\* "Student not found" })
StudentNotFound(r) == JsonFailure(r, 404, "Student not found")

\* No request is being answered.
Idle == resp.op = "none"

\* The answer is sent and the request ends.
EndRequest ==
    /\ ~Idle
    /\ resp' = NoResp
    /\ UNCHANGED <<impl, students, internships, projects, rest>>

----------------------------------------------------------------------------
(* Student writes *)

\* A string property of a request body; Undefined is a property it lacks.
Str(v) == [kind |-> "string", items |-> <<v>>]
StrOf(v) == v.items[1]
Present(v) == v.kind # "undefined"

\* The body of POST /api/onboard and of PUT /api/student/:id.
StudentBody(name, email, skills, interests) ==
    [name |-> name, email |-> email, skills |-> skills, interests |-> interests]

\* The students row SupabaseStorage.createStudent inserts: an absent skills
\* or interests takes the column default [], a null stays null.
SupabaseStorage_createStudent(id, insertStudent) ==
    StudentRow(id, StrOf(insertStudent.name), StrOf(insertStudent.email),
               IF Present(insertStudent.skills) THEN insertStudent.skills ELSE Arr(<<>>),
               IF Present(insertStudent.interests) THEN insertStudent.interests
               ELSE Arr(<<>>))

\* MemStorage.createStudent
MemStorage_createStudent(id, insertStudent) ==
    StudentRow(id, StrOf(insertStudent.name), StrOf(insertStudent.email),
               IF isArray(insertStudent.skills) THEN insertStudent.skills ELSE Arr(<<>>),
               IF isArray(insertStudent.interests) THEN insertStudent.interests
               ELSE Arr(<<>>))

\* The row SupabaseStorage.updateStudent leaves: .set(updates) writes the
\* columns that updates carries.
SupabaseStorage_updateStudent(existing, updates) ==
    StudentRow(existing.id,
               IF Present(updates.name) THEN StrOf(updates.name) ELSE existing.name,
               IF Present(updates.email) THEN StrOf(updates.email) ELSE existing.email,
               IF Present(updates.skills) THEN updates.skills ELSE existing.skills,
               IF Present(updates.interests) THEN updates.interests
               ELSE existing.interests)

\* A request body that carries an id as well: PUT /api/student/:id hands
\* req.body to updateStudent as it came.
WithId(id, body) == [id |-> Str(id)] @@ body

\* The id of { ...existing, ...updates }: that of updates when it has one.
SpreadId(existing, updates) ==
    IF "id" \in DOMAIN updates /\ Present(updates.id) THEN StrOf(updates.id)
    ELSE existing.id

\* An update that adds the supplied skills the student lacks to the stored
\* ones.
MemStorage_updateStudent_Merging(existing, updates) ==
    StudentRow(SpreadId(existing, updates),
               IF Present(updates.name) THEN StrOf(updates.name) ELSE existing.name,
               IF Present(updates.email) THEN StrOf(updates.email) ELSE existing.email,
               IF isArray(updates.skills)
               THEN Arr(OrEmpty(existing.skills) \o
                        SelectSeq(updates.skills.items,
                                  LAMBDA skill : skill \notin SetOf(OrEmpty(existing.skills))))
               ELSE existing.skills,
               IF isArray(updates.interests) THEN updates.interests
               ELSE existing.interests)

\* MemStorage.updateStudent: { ...existing, ...updates, skills, interests }
MemStorage_updateStudent(existing, updates) ==
    StudentRow(SpreadId(existing, updates),
               IF Present(updates.name) THEN StrOf(updates.name) ELSE existing.name,
               IF Present(updates.email) THEN StrOf(updates.email) ELSE existing.email,
               IF isArray(updates.skills) THEN updates.skills ELSE existing.skills,
               IF isArray(updates.interests) THEN updates.interests
               ELSE existing.interests)

\* The unique constraint on students.email: another row holds the email.
EmailTaken(store, email, id) ==
    \E other \in StudentIds \ {id} : store[other].found /\ store[other].email = email

\* The order in which ids are handed out (ids are opaque, so the first
\* student created is called s1).
IdOrder == <<"s1", "s2">>
NextId(store, ids) ==
    IdOrder[CHOOSE k \in DOMAIN IdOrder :
              /\ IdOrder[k] \in ids /\ ~store[IdOrder[k]].found
              /\ \A j \in 1..(k - 1) : ~(IdOrder[j] \in ids /\ ~store[IdOrder[j]].found)]

\* POST /api/onboard with one of the bodies given, for students of the ids
\* given. "ZodError" is a body insertStudentSchema rejects, "db" an insert
\* that fails; an insert of an email another row holds fails as well.
OnboardWith(ids, bodies) ==
    /\ Idle
    /\ \E id \in ids : ~students[id].found
    /\ \E body \in bodies, outcome \in {"created", "ZodError", "db"} :
        LET id == NextId(students, ids)
            failed == \/ outcome = "db"
                      \/ impl = "supabase" /\ EmailTaken(students, StrOf(body.email), id)
        IN
        /\ outcome = "db" => impl = "supabase"
        /\ IF outcome # "ZodError" /\ ~failed
           THEN /\ students' = [students EXCEPT ![id] =
                        IF impl = "supabase"
                        THEN SupabaseStorage_createStudent(id, body)
                        ELSE MemStorage_createStudent(id, body)]
                /\ resp' = [NoResp EXCEPT !.route = "POST /api/onboard",
                                !.op = "createStudent", !.studentId = id,
                                !.body = body,
                                !.student = students'[id],
                                !.status = 200, !.success = TRUE]
           ELSE /\ students' = students
                /\ resp' = [NoResp EXCEPT !.route = "POST /api/onboard",
                                !.op = "createStudent",
                                !.body = body,
                                !.threw = TRUE,
                                !.error = IF outcome = "ZodError" THEN outcome ELSE "db",
                                !.status = 400, !.success = FALSE,
                                !.httpError = IF outcome = "ZodError" THEN "ZodError"
                                              ELSE "Invalid student data"]
        /\ UNCHANGED <<impl, internships, projects, rest>>

\* PUT /api/student/:id with one of the bodies given. SupabaseStorage's
\* updateStudent catches a failed update (fail, or an email another row
\* holds) and returns undefined, which the route answers as it answers an
\* unknown id.
UpdateStudentWith(bodies) ==
    /\ Idle
    /\ \E id \in StudentIds, body \in bodies, fail \in BOOLEAN :
        LET failed == /\ impl = "supabase"
                      /\ \/ fail
                         \/ /\ Present(body.email) /\ students[id].found
                            /\ EmailTaken(students, StrOf(body.email), id)
        IN
        /\ fail => impl = "supabase"
        /\ IF failed \/ ~students[id].found
           THEN /\ students' = students
                /\ resp' = StudentNotFound(
                              [NoResp EXCEPT !.route = "PUT /api/student/:id",
                                  !.op = "updateStudent", !.studentId = id,
                                  !.body = body,
                                  !.error = IF failed THEN "db" ELSE ""])
           ELSE /\ students' = [students EXCEPT ![id] =
                        IF impl = "supabase"
                        THEN SupabaseStorage_updateStudent(students[id], body)
                        ELSE MemStorage_updateStudent(students[id], body)]
                /\ resp' = [NoResp EXCEPT !.route = "PUT /api/student/:id",
                                !.op = "updateStudent", !.studentId = id,
                                !.body = body,
                                !.student = students'[id],
                                !.status = 200, !.success = TRUE]
        /\ UNCHANGED <<impl, internships, projects, rest>>

\* POST /api/onboard for the first student, with any skills.
Onboard ==
    OnboardWith(NewIds, {StudentBody(Str("Asha"), Str("asha@example.com"),
                                     skills, Undefined) : skills \in SkillsInputs})

\* PUT /api/student/:id with a body that carries skills or nothing.
UpdateStudent ==
    UpdateStudentWith({StudentBody(Undefined, Undefined, skills, Undefined) :
                          skills \in SkillsInputs})

\* The first student in insertion order with the email, if there is one.
FirstByEmail(store, email) ==
    IF \E k \in DOMAIN IdOrder : store[IdOrder[k]].found /\ store[IdOrder[k]].email = email
    THEN store[IdOrder[CHOOSE k \in DOMAIN IdOrder :
                 /\ store[IdOrder[k]].found /\ store[IdOrder[k]].email = email
                 /\ \A j \in 1..(k - 1) :
                       ~(store[IdOrder[j]].found /\ store[IdOrder[j]].email = email)]]
    ELSE NoStudent

\* Emails of the students.
Emails == {"asha@example.com", "ravi@example.com"}

\* GET /api/student/email/:email: MemStorage finds the first student with
\* the email, SupabaseStorage selects with limit(1) and answers undefined
\* when the query fails.
GetStudentByEmail ==
    /\ Idle
    /\ \E email \in Emails, fail \in (IF impl = "supabase" THEN BOOLEAN ELSE {FALSE}) :
        LET student == IF fail THEN NoStudent ELSE FirstByEmail(students, email)
            r == [NoResp EXCEPT !.route = "GET /api/student/email/:email",
                                !.op = "getStudentByEmail", !.student = student,
                                !.failed = FailedReads(fail, FALSE, ""),
                                !.query = email]
        IN  resp' = IF student.found THEN JsonSuccess(r) ELSE StudentNotFound(r)
    /\ UNCHANGED <<impl, students, internships, projects, rest>>

----------------------------------------------------------------------------
(* Internship routes *)

\* storage.findInternships(studentId): the list returned, with what it read.
findInternships(studentId, failStudent, failCatalog, draws) ==
    LET student == getStudent(impl, students, studentId, failStudent)
        all == getInternships(impl, internships, failCatalog)
        list == CASE impl = "supabase" -> SupabaseStorage_findInternships(student, all)
                  [] impl = "mem" -> MemStorage_findInternships(student, all)
                  [] impl = "memOld" -> OldMemStorage_findInternships(student, all, draws)
    IN  [NoResp EXCEPT !.op = "findInternships", !.studentId = studentId,
            !.student = student, !.catalog = all, !.list = list]

\* The inputs of one findInternships call that the environment chooses: the
\* two queries' failures (SupabaseStorage) and the random bonuses (older
\* MemStorage).
FindInternshipsChoices ==
    [failStudent : IF impl = "supabase" THEN BOOLEAN ELSE {FALSE},
     failCatalog : IF impl = "supabase" THEN BOOLEAN ELSE {FALSE},
     draws : IF impl = "memOld" THEN [DOMAIN internships -> BonusDraws]
             ELSE {[i \in DOMAIN internships |-> 0]}]

\* Mutant: an empty result is answered 404, as PUT /api/student/:id answers
\* an unknown student.
GetFindInternships_respond_NotFound(r) ==
    IF r.threw THEN JsonFailure(r, 500, "Failed to find internships")
    ELSE IF r.list = <<>> THEN JsonFailure(r, 404, "Student not found")
    ELSE JsonSuccess(r)

\* The try/catch of GET /api/find-internships/:studentId around the storage call.
GetFindInternships_respond(r) ==
    IF r.threw THEN JsonFailure(r, 500, "Failed to find internships")
    ELSE JsonSuccess(r)

\* GET /api/find-internships/:studentId, requested again for the same
\* student as soon as the first answer has arrived.
GetFindInternshipsAgain ==
    /\ resp.op = "findInternships" /\ ~resp.previous.called
    /\ \E c \in FindInternshipsChoices :
        /\ resp' = [GetFindInternships_respond(
                        findInternships(resp.studentId, c.failStudent, c.failCatalog,
                                        c.draws))
                        EXCEPT !.route = "GET /api/find-internships/:studentId",
                               !.failed = FailedReads(c.failStudent, c.failCatalog,
                                                      "internships"),
                               !.previous = [called |-> TRUE, student |-> resp.student,
                                             catalog |-> resp.catalog,
                                             list |-> resp.list]]
        /\ UNCHANGED <<impl, students, internships, projects, rest>>

\* GET /api/find-internships/:studentId
GetFindInternships ==
    /\ Idle
    /\ \E studentId \in StudentIds, c \in FindInternshipsChoices :
        /\ resp' = [GetFindInternships_respond(
                        findInternships(studentId, c.failStudent, c.failCatalog, c.draws))
                        EXCEPT !.route = "GET /api/find-internships/:studentId",
                               !.failed = FailedReads(c.failStudent, c.failCatalog,
                                                      "internships")]
        /\ UNCHANGED <<impl, students, internships, projects, rest>>

\* The bodies that name a stored matching: { studentId }.
IdBodies == {Body(id, NoProfile, NoFilters) : id \in StudentIds}

\* An on-the-fly matching whose remote: false keeps the internships that are
\* not remote.
ProfileMatch_RemoteFalseExcludes(profile, filters, all) ==
    LET profileSkills == [i \in DOMAIN OrEmpty(profile.skills) |->
                              toLowerCase(OrEmpty(profile.skills)[i])]
        scoreOf(intern) ==
            LET required == [i \in DOMAIN OrEmpty(intern.requiredSkills) |->
                                 toLowerCase(OrEmpty(intern.requiredSkills)[i])]
                matchingSkills ==
                    SelectSeq(profileSkills, LAMBDA ps :
                        \E k \in DOMAIN required :
                            includes(required[k], ps) \/ includes(ps, required[k]))
            IN  IF Len(required) > 0
                THEN RoundPercent(Len(matchingSkills), Len(required))
                ELSE 0
        mapped == [i \in DOMAIN all |->
                     [id |-> all[i].id, title |-> all[i].title,
                      company |-> all[i].company, location |-> all[i].location,
                      stipend |-> all[i].stipend,
                      requiredSkills |-> all[i].requiredSkills,
                      description |-> all[i].description,
                      score |-> scoreOf(all[i])]]
        byLocation ==
            IF filters.present /\ filters.location # ""
            THEN SelectSeq(mapped, LAMBDA j :
                     includes(toLowerCase(j.location), toLowerCase(filters.location)))
            ELSE mapped
        byRemote ==
            IF filters.present /\ filters.remote = "true"
            THEN SelectSeq(byLocation, LAMBDA j :
                     includes(toLowerCase(j.location), Chars["remote"]))
            ELSE IF filters.present /\ filters.remote = "false"
            THEN SelectSeq(byLocation, LAMBDA j :
                     ~includes(toLowerCase(j.location), Chars["remote"]))
            ELSE byLocation
    IN  SortDesc(byRemote, [i \in DOMAIN byRemote |-> byRemote[i].score])

\* The on-the-fly matching of POST /api/find-internships: score is kept in
\* hundredths (the code's Math.round(x * 100) / 100).
ProfileMatch(profile, filters, all) ==
    LET profileSkills == [i \in DOMAIN OrEmpty(profile.skills) |->
                              toLowerCase(OrEmpty(profile.skills)[i])]
        scoreOf(intern) ==
            LET required == [i \in DOMAIN OrEmpty(intern.requiredSkills) |->
                                 toLowerCase(OrEmpty(intern.requiredSkills)[i])]
                matchingSkills ==
                    SelectSeq(profileSkills, LAMBDA ps :
                        \E k \in DOMAIN required :
                            includes(required[k], ps) \/ includes(ps, required[k]))
            IN  IF Len(required) > 0
                THEN RoundPercent(Len(matchingSkills), Len(required))
                ELSE 0
        mapped == [i \in DOMAIN all |->
                     [id |-> all[i].id, title |-> all[i].title,
                      company |-> all[i].company, location |-> all[i].location,
                      stipend |-> all[i].stipend,
                      requiredSkills |-> all[i].requiredSkills,
                      description |-> all[i].description,
                      score |-> scoreOf(all[i])]]
        byLocation ==
            IF filters.present /\ filters.location # ""
            THEN SelectSeq(mapped, LAMBDA j :
                     includes(toLowerCase(j.location), toLowerCase(filters.location)))
            ELSE mapped
        byRemote ==
            IF filters.present /\ filters.remote = "true"
            THEN SelectSeq(byLocation, LAMBDA j :
                     includes(toLowerCase(j.location), Chars["remote"]))
            ELSE byLocation
    IN  SortDesc(byRemote, [i \in DOMAIN byRemote |-> byRemote[i].score])

\* POST /api/find-internships, for the bodies of the set given.
PostFindInternships(bodies) ==
    /\ Idle
    /\ \E body \in bodies, c \in FindInternshipsChoices :
        /\ resp' =
             [(IF body.studentId # ""
               THEN JsonSuccess(findInternships(body.studentId, c.failStudent,
                                                c.failCatalog, c.draws))
               ELSE LET all == getInternships(impl, internships, c.failCatalog)
                    IN  IF body.profile.present
                        THEN JsonSuccess([NoResp EXCEPT !.op = "profileMatch",
                                 !.catalog = all,
                                 !.list = ProfileMatch(body.profile, body.filters, all)])
                        ELSE JsonSuccess([NoResp EXCEPT !.op = "getInternships",
                                 !.catalog = all, !.list = all]))
              EXCEPT !.route = "POST /api/find-internships",
                     !.posted = body,
                     !.failed = FailedReads(body.studentId # "" /\ c.failStudent,
                                            c.failCatalog, "internships")]
        /\ UNCHANGED <<impl, students, internships, projects, rest>>

\* GET /api/internships
GetInternships ==
    /\ Idle
    /\ \E fail \in (IF impl = "supabase" THEN BOOLEAN ELSE {FALSE}) :
         LET all == getInternships(impl, internships, fail)
         IN  resp' = [JsonSuccess([NoResp EXCEPT !.op = "getInternships",
                                      !.catalog = all, !.list = all])
                         EXCEPT !.route = "GET /api/internships",
                                !.failed = FailedReads(FALSE, fail, "internships")]
    /\ UNCHANGED <<impl, students, internships, projects, rest>>

----------------------------------------------------------------------------
(* Internship search *)

\* SQL LIKE on spellings: % stands for any run of characters, _ for any one.
RECURSIVE LikeMatch(_, _)
LikeMatch(text, pattern) ==
    IF pattern = <<>> THEN text = <<>>
    ELSE IF Head(pattern) = "%"
         THEN \E k \in 0..Len(text) :
                 LikeMatch(SubSeq(text, k + 1, Len(text)), Tail(pattern))
         ELSE /\ text # <<>>
              /\ Head(pattern) = "_" \/ Head(pattern) = Head(text)
              /\ LikeMatch(Tail(text), Tail(pattern))

\* ilike(column, `%${query}%`)
ilike(column, query) ==
    LikeMatch(toLowerCase(column), <<"%">> \o toLowerCase(query) \o <<"%">>)

\* The filters argument of searchInternships; "" is a property it lacks.
SearchFilters(location, minStipend) ==
    [present |-> TRUE, location |-> location, minStipend |-> minStipend]
NoSearchFilters == [present |-> FALSE, location |-> "", minStipend |-> ""]

\* The WHERE clause of SupabaseStorage.searchInternships: the query builder
\* keeps the clause of its last where() call, so the filters' conditions,
\* when there are any, take the place of the query's.
SupabaseStorage_where(query, filters, row) ==
    IF filters.present /\ (filters.location # "" \/ filters.minStipend # "")
    THEN /\ filters.location # "" => ilike(row.location, filters.location)
         /\ filters.minStipend # "" => ilike(row.stipend, filters.minStipend)
    ELSE query # "" =>
            \/ ilike(row.title, query)
            \/ ilike(row.company, query)
            \/ ilike(row.description, query)

\* SupabaseStorage.searchInternships: the rows by id descending, [] when the
\* query fails.
SupabaseStorage_searchInternships(table, query, filters, fail) ==
    IF fail THEN <<>>
    ELSE SelectSeq(Reverse(table),
                   LAMBDA row : SupabaseStorage_where(query, filters, row))

\* MemStorage.searchInternships: filters is not read.
MemStorage_searchInternships(allInternships, query, filters) ==
    SelectSeq(allInternships, LAMBDA internship :
        \/ includes(toLowerCase(internship.title), toLowerCase(query))
        \/ includes(toLowerCase(internship.company), toLowerCase(query))
        \/ includes(toLowerCase(internship.description), toLowerCase(query)))

\* Query texts and filters of the searches.
QueryPool == {"", "react", "DEVELOPER", "_"}
FilterPool ==
    { NoSearchFilters, SearchFilters("", ""), SearchFilters("remote", ""),
      SearchFilters("Bangalore", ""), SearchFilters("", "5000"),
      SearchFilters("Remote", "20000") }

\* storage.searchInternships(query, filters), which SupabaseStorage and the
\* MemStorage beside it have.
SearchInternships ==
    /\ Idle /\ impl \in {"supabase", "mem"}
    /\ \E query \in QueryPool, filters \in FilterPool,
          fail \in (IF impl = "supabase" THEN BOOLEAN ELSE {FALSE}) :
         resp' = [NoResp EXCEPT
                    !.op = "searchInternships",
                    !.query = query, !.filters = filters,
                    !.failed = FailedReads(FALSE, fail, "internships"),
                    !.catalog = getInternships(impl, internships, fail),
                    !.list = IF impl = "supabase"
                             THEN SupabaseStorage_searchInternships(
                                      internships, query, filters, fail)
                             ELSE MemStorage_searchInternships(
                                      getInternships(impl, internships, fail),
                                      query, filters)]
    /\ UNCHANGED <<impl, students, internships, projects, rest>>

\* Tables of the database whose rows are copies of the sample internships.
SearchTables ==
    UNION {{[i \in 1..n |-> [sampleInternships[f[i]] EXCEPT !.id = i]] :
               f \in [1..n -> DOMAIN sampleInternships]}
           : n \in 0..MaxCatalog}

----------------------------------------------------------------------------
(* Skill gap analyzer *)

\* roleSkillMaps of SupabaseStorage.analyzeSkillGap
SupabaseStorage_roleSkillMaps ==
    ("Full-Stack Developer" :> <<"React", "Node.js", "MongoDB", "JavaScript", "CSS",
                                 "HTML", "APIs", "Docker", "Git", "TypeScript">>)
    @@ ("Frontend Developer" :> <<"React", "JavaScript", "CSS", "HTML", "TypeScript",
                                  "Redux", "Next.js", "Tailwind CSS">>)
    @@ ("Backend Developer" :> <<"Node.js", "Python", "Java", "SQL", "MongoDB", "APIs",
                                 "Docker", "AWS", "Express">>)
    @@ ("Data Scientist" :> <<"Python", "Machine Learning", "Statistics", "SQL",
                              "Pandas", "TensorFlow", "Scikit-learn", "Jupyter">>)
    @@ ("DevOps Engineer" :> <<"Docker", "Kubernetes", "AWS", "CI/CD", "Linux",
                               "Jenkins", "Terraform", "Ansible">>)
    @@ ("Mobile Developer" :> <<"React Native", "Flutter", "Swift", "Kotlin",
                                "Firebase", "Mobile UI/UX">>)
    @@ ("UI/UX Designer" :> <<"Figma", "Adobe XD", "Sketch", "Prototyping",
                              "User Research", "Design Systems">>)
    @@ ("Product Manager" :> <<"Product Strategy", "User Research", "Data Analysis",
                               "Agile", "JIRA", "SQL">>)

\* roleSkillMaps of MemStorage.analyzeSkillGap
MemStorage_roleSkillMaps ==
    ("Full-Stack Developer" :> <<"React", "Node.js", "MongoDB", "JavaScript", "CSS",
                                 "APIs", "Docker">>)
    @@ ("Data Scientist" :> <<"Python", "Machine Learning", "Statistics", "SQL",
                              "Pandas", "TensorFlow">>)
    @@ ("DevOps Engineer" :> <<"Docker", "Kubernetes", "AWS", "CI/CD", "Linux">>)

Current(name, level, proficiency) ==
    [name |-> name, level |-> level, proficiency |-> proficiency]
Missing(name, priority, timeToLearn) ==
    [name |-> name, priority |-> priority, timeToLearn |-> timeToLearn]

\* roleSkillMaps of the older MemStorage.analyzeSkillGap
OldMemStorage_roleSkillMaps ==
    ("Full-Stack Developer" :>
        [required |-> <<"React", "Node.js", "MongoDB", "JavaScript", "CSS", "APIs">>,
         current |-> << Current("React", "Advanced", 80),
                        Current("JavaScript", "Intermediate", 60),
                        Current("CSS", "Beginner", 40) >>,
         missing |-> << Missing("Node.js", "High Priority", "2-3 weeks"),
                        Missing("MongoDB", "Medium Priority", "1-2 weeks"),
                        Missing("Docker", "Low Priority", "3-4 weeks") >>])
    @@ ("Data Scientist" :>
        [required |-> <<"Python", "Machine Learning", "Statistics", "SQL", "Pandas">>,
         current |-> << Current("Python", "Intermediate", 65),
                        Current("SQL", "Beginner", 35) >>,
         missing |-> << Missing("Machine Learning", "High Priority", "4-6 weeks"),
                        Missing("Statistics", "High Priority", "3-4 weeks"),
                        Missing("Pandas", "Medium Priority", "1-2 weeks") >>])
    @@ ("DevOps Engineer" :>
        [required |-> <<"Docker", "Kubernetes", "AWS", "CI/CD", "Linux">>,
         current |-> << Current("Linux", "Intermediate", 55) >>,
         missing |-> << Missing("Docker", "High Priority", "2-3 weeks"),
                        Missing("AWS", "High Priority", "4-5 weeks"),
                        Missing("Kubernetes", "Medium Priority", "3-4 weeks") >>])

\* Property names every object literal inherits from Object.prototype: a
\* lookup of one of them finds a function (or, for __proto__, an object).
ObjectPrototypeKeys ==
    {"constructor", "toString", "toLocaleString", "valueOf", "hasOwnProperty",
     "isPrototypeOf", "propertyIsEnumerable", "__proto__"}

DefaultRole == "Full-Stack Developer"

\* What `roleSkillMaps[targetRole] || roleSkillMaps["Full-Stack Developer"]`
\* finds: "own" for a key of the table, "inherited" for the truthy value an
\* Object.prototype member gives, "default" for every other name.
RoleLookup(table, targetRole) ==
    IF targetRole \in DOMAIN table THEN [kind |-> "own", role |-> targetRole]
    ELSE IF targetRole \in ObjectPrototypeKeys
         THEN [kind |-> "inherited", role |-> targetRole]
         ELSE [kind |-> "default", role |-> DefaultRole]

\* The outcome of a storage call: a value returned or an error thrown.
Returned(report) == [threw |-> FALSE, error |-> "", report |-> report]
Thrown(error) == [threw |-> TRUE, error |-> error, report |-> NoReport]

\* currentSkills of analyzeSkillGap, in SupabaseStorage and MemStorage.
currentSkills(student, required) ==
    SelectSeq(ArrayFromSet(OrEmpty(student.skills)),
              LAMBDA skill : skill \in SetOf(required))

\* missingSkills listed from the end of the role's table.
missingSkills_Reversed(student, required) ==
    Reverse(SelectSeq(ArrayFromSet(required),
                      LAMBDA skill : skill \notin SetOf(OrEmpty(student.skills))))

\* missingSkills of analyzeSkillGap, in SupabaseStorage and MemStorage.
missingSkills(student, required) ==
    SelectSeq(ArrayFromSet(required),
              LAMBDA skill : skill \notin SetOf(OrEmpty(student.skills)))

\* Draws of a random number scaled by 42 instead of 40.
ProficiencyDraws_Wide == {0, 20, 41}

\* Values of Math.floor(Math.random() * 40) the model draws.
ProficiencyDraws == {0, 20, 39}

\* The report SupabaseStorage.analyzeSkillGap builds for the role the lookup
\* settled on; draws[i] is the random number of the i-th current skill.
\* Template strings are kept as their parts.
SupabaseStorage_report(student, targetRole, role, draws) ==
             LET required == SupabaseStorage_roleSkillMaps[role]
                 current == currentSkills(student, required)
                 missing == missingSkills(student, required)
                 weeks == [i \in 1..Min(4, Len(missing)) |->
                     [title |-> <<"Week ", ToString(i), "-", ToString(i + 1), ": ",
                                  missing[i]>>,
                      focus |-> missing[i],
                      tasks |-> << <<"Learn fundamentals of ", missing[i]>>,
                                   <<"Complete ", missing[i], " tutorials and exercises">>,
                                   <<"Build a small project using ", missing[i]>>,
                                   <<"Practice ", missing[i], " concepts daily">> >>]]
             IN  Returned(
                   [targetRole |-> targetRole,
                    currentSkills |-> Arr([i \in DOMAIN current |->
                        Current(current[i], "Intermediate", draws[i] + 60)]),
                    missingSkills |-> Arr([i \in DOMAIN missing |->
                        Missing(missing[i], IF i - 1 < 3 THEN "High" ELSE "Medium",
                                "2-4 weeks")]),
                    learningPlan |-> [weeks |-> weeks]])

\* The analyzer without its check of the student.
SupabaseStorage_analyzeSkillGap_NoStudentCheck(student, targetRole, draws) ==
    LET found == RoleLookup(SupabaseStorage_roleSkillMaps, targetRole)
    IN  IF found.kind = "inherited" THEN Thrown("TypeError: object is not iterable")
        ELSE SupabaseStorage_report(student, targetRole, found.role, draws)

\* SupabaseStorage.analyzeSkillGap, after getStudent: new Set() of an
\* inherited member throws, and the catch block throws the error again.
SupabaseStorage_analyzeSkillGap(student, targetRole, draws) ==
    LET found == RoleLookup(SupabaseStorage_roleSkillMaps, targetRole)
    IN  IF ~student.found THEN Thrown("Student not found")
        ELSE IF found.kind = "inherited"
             THEN Thrown("TypeError: object is not iterable")
        ELSE SupabaseStorage_report(student, targetRole, found.role, draws)

\* `${missingSkills[i]}` and `missingSkills[i] || fallback`, i counted from 1.
ItemOrUndefined(list, i) == IF i \in DOMAIN list THEN list[i] ELSE "undefined"
ItemOr(list, i, fallback) == IF i \in DOMAIN list THEN list[i] ELSE fallback

\* MemStorage.analyzeSkillGap, after getStudent.
MemStorage_analyzeSkillGap(student, targetRole) ==
    LET found == RoleLookup(MemStorage_roleSkillMaps, targetRole)
    IN  IF ~student.found THEN Thrown("Student not found")
        ELSE IF found.kind = "inherited"
             THEN Thrown("TypeError: object is not iterable")
        ELSE LET required == MemStorage_roleSkillMaps[found.role]
                 current == currentSkills(student, required)
                 missing == missingSkills(student, required)
                 weeks ==
                   << [title |-> <<"Week 1-2: Core Concepts">>,
                       focus |-> ItemOr(missing, 1, "Key Skill 1"),
                       tasks |-> << <<"Learn basics of ", ItemOrUndefined(missing, 1)>>,
                                    <<"Build a small project with ",
                                      ItemOrUndefined(missing, 1)>> >>],
                      [title |-> <<"Week 3-4: Advanced Topics">>,
                       focus |-> ItemOr(missing, 2, "Key Skill 2"),
                       tasks |-> << <<"Deep dive into ", ItemOrUndefined(missing, 2)>>,
                                    <<"Integrate ", ItemOrUndefined(missing, 2),
                                      " with other tech">> >>] >>
             IN  Returned(
                   [targetRole |-> targetRole,
                    currentSkills |-> Arr([i \in DOMAIN current |->
                        Current(current[i], "Intermediate", 60)]),
                    missingSkills |-> Arr([i \in DOMAIN missing |->
                        Missing(missing[i], "High", "2-4 weeks")]),
                    learningPlan |-> [weeks |-> weeks]])

\* learningPlan of the older MemStorage.analyzeSkillGap
OldMemStorage_learningPlan ==
    [weeks |->
       << [title |-> <<"Week 1">>, focus |-> "Node.js Fundamentals",
           tasks |-> << <<"Express.js basics">>, <<"REST API creation">>,
                        <<"Build a simple server">> >>],
          [title |-> <<"Week 2">>, focus |-> "Database Integration",
           tasks |-> << <<"MongoDB setup">>, <<"CRUD operations">>,
                        <<"Data modeling">> >>],
          [title |-> <<"Week 3">>, focus |-> "Authentication & Security",
           tasks |-> << <<"JWT implementation">>, <<"User management">>,
                        <<"Security best practices">> >>],
          [title |-> <<"Week 4">>, focus |-> "Project Integration",
           tasks |-> << <<"Deploy application">>, <<"Testing & debugging">>,
                        <<"Portfolio project">> >>] >>]

\* The older MemStorage.analyzeSkillGap, after getStudent: roleData.current
\* and roleData.missing of an inherited member are undefined.
OldMemStorage_analyzeSkillGap(student, targetRole) ==
    LET found == RoleLookup(OldMemStorage_roleSkillMaps, targetRole)
    IN  IF ~student.found THEN Thrown("Student not found")
        ELSE Returned(
               [targetRole |-> targetRole,
                currentSkills |-> IF found.kind = "inherited" THEN Undefined
                                  ELSE Arr(OldMemStorage_roleSkillMaps[found.role].current),
                missingSkills |-> IF found.kind = "inherited" THEN Undefined
                                  ELSE Arr(OldMemStorage_roleSkillMaps[found.role].missing),
                learningPlan |-> OldMemStorage_learningPlan])

\* Target roles a request names; "" stands for a missing one.
RolePool ==
    {"Full-Stack Developer", "DevOps Engineer", "Frontend Developer", "Astronaut",
     "constructor", ""}

\* The required skills of the role the lookup settles on, in the class impl,
\* for a target role that is no inherited member.
RequiredSkills(im, targetRole) ==
    CASE im = "supabase" ->
            SupabaseStorage_roleSkillMaps[
                RoleLookup(SupabaseStorage_roleSkillMaps, targetRole).role]
      [] im = "mem" ->
            MemStorage_roleSkillMaps[RoleLookup(MemStorage_roleSkillMaps, targetRole).role]
      [] im = "memOld" ->
            OldMemStorage_roleSkillMaps[
                RoleLookup(OldMemStorage_roleSkillMaps, targetRole).role].required

\* storage.analyzeSkillGap(studentId, targetRole): the outcome, with what it read.
analyzeSkillGap(studentId, targetRole, failStudent, draws) ==
    LET student == getStudent(impl, students, studentId, failStudent)
        out == CASE impl = "supabase" ->
                      SupabaseStorage_analyzeSkillGap(student, targetRole, draws)
                 [] impl = "mem" -> MemStorage_analyzeSkillGap(student, targetRole)
                 [] impl = "memOld" -> OldMemStorage_analyzeSkillGap(student, targetRole)
    IN  [NoResp EXCEPT !.op = "analyzeSkillGap", !.studentId = studentId,
            !.targetRole = targetRole, !.student = student,
            !.threw = out.threw, !.error = out.error, !.report = out.report]

\* The try/catch of POST /api/skill-gap around the storage call.
PostSkillGap_respond(r) ==
    IF r.threw THEN JsonFailure(r, 500, "Failed to analyze skill gap")
    ELSE JsonSuccess(r)

\* The random numbers one analyzeSkillGap call draws: one for each current
\* skill in SupabaseStorage, none elsewhere.
SkillGapDraws(student, targetRole) ==
    IF /\ impl = "supabase" /\ student.found
       /\ RoleLookup(SupabaseStorage_roleSkillMaps, targetRole).kind # "inherited"
    THEN [DOMAIN currentSkills(student, RequiredSkills(impl, targetRole))
             -> ProficiencyDraws]
    ELSE {<<>>}

\* POST /api/skill-gap
PostSkillGap ==
    /\ Idle
    /\ \E studentId \in StudentIds \cup {""}, targetRole \in RolePool,
          failStudent \in (IF impl = "supabase" THEN BOOLEAN ELSE {FALSE}) :
         /\ IF studentId = "" \/ targetRole = ""
            THEN resp' = [JsonFailure(NoResp, 400, "Student ID and target role are required")
                            EXCEPT !.route = "POST /api/skill-gap",
                                   !.studentId = studentId, !.targetRole = targetRole]
            ELSE \E draws \in SkillGapDraws(
                        getStudent(impl, students, studentId, failStudent), targetRole) :
                   resp' = [PostSkillGap_respond(
                               analyzeSkillGap(studentId, targetRole, failStudent, draws))
                               EXCEPT !.route = "POST /api/skill-gap",
                                      !.failed = FailedReads(failStudent, FALSE, "")]
         /\ UNCHANGED <<impl, students, internships, projects, rest>>

----------------------------------------------------------------------------
(* Project recommender *)

\* technologies columns the model's project rows hold (the column is nullable).
TechPool ==
    { Null, Arr(<<"React", "JavaScript">>), Arr(<<"Python">>) }

\* A row of the projects table.
Project(id, technologies) == [id |-> id, technologies |-> technologies]

\* Tables of the database, rows in ascending id.
ProjectTables ==
    UNION {{[i \in 1..n |-> Project(i, f[i])] : f \in [1..n -> TechPool]}
           : n \in 0..MaxCatalog}

\* MemStorage.initializeSampleData: the projects, in insertion order.
sampleProjects ==
    << Project(1, Arr(<<"React", "Node.js", "MongoDB", "Chart.js">>)),
       Project(2, Arr(<<"Python", "TensorFlow", "NLP", "Flask">>)),
       Project(3, Arr(<<"React", "JavaScript", "LocalStorage", "CSS">>)) >>

\* The older MemStorage.initializeSampleData.
oldSampleProjects ==
    << Project(1, Arr(<<"React", "Node.js", "MongoDB", "Chart.js">>)),
       Project(2, Arr(<<"Python", "TensorFlow", "NLP", "Flask">>)),
       Project(3, Arr(<<"React", "JavaScript", "LocalStorage", "CSS3">>)),
       Project(4, Arr(<<"Python", "Pandas", "APIs", "D3.js">>)) >>

\* A getProjects that answers the rows whether or not the query failed.
getProjects_IgnoresFailure(im, table, fail) ==
    IF im = "supabase" THEN Reverse(table) ELSE table

\* getProjects: SupabaseStorage orders by id descending and answers [] when
\* the query fails; MemStorage lists its map in insertion order.
getProjects(im, table, fail) ==
    IF im = "supabase"
    THEN IF fail THEN <<>> ELSE Reverse(table)
    ELSE table

\* The orders list.sort(() => Math.random() - 0.5) can leave the list in.
Shuffles(list) ==
    {[i \in DOMAIN list |-> list[p[i]]] :
        p \in {q \in [DOMAIN list -> DOMAIN list] :
                 \A i, j \in DOMAIN list : q[i] = q[j] => i = j}}

WithScore(project, score) ==
    [id |-> project.id, technologies |-> project.technologies, score |-> score]

\* matchingTechCount of getRecommendedProjects
matchingTechCount(studentSkills, project) ==
    Len(SelectSeq(OrEmpty(project.technologies),
                  LAMBDA tech : tech \in SetOf(studentSkills)))

\* The student has no skills to score by: !student || !student.skills ||
\* student.skills.length === 0
NoSkillsOnFile(student) ==
    \/ ~student.found
    \/ ~isArray(student.skills)
    \/ Len(student.skills.items) = 0

\* A recommender that drops the projects with score 0, as the matcher drops
\* internships.
scoredProjects_Filtered(student, allProjects) ==
    LET scored == [i \in DOMAIN allProjects |->
                     WithScore(allProjects[i],
                               matchingTechCount(student.skills.items, allProjects[i]))]
        kept == SelectSeq(scored, LAMBDA project : project.score > 0)
    IN  SortDesc(kept, [i \in DOMAIN kept |-> kept[i].score])

\* The scored branch of getRecommendedProjects (SupabaseStorage and MemStorage).
scoredProjects(student, allProjects) ==
    LET scored == [i \in DOMAIN allProjects |->
                     WithScore(allProjects[i],
                               matchingTechCount(student.skills.items, allProjects[i]))]
    IN  SortDesc(scored, [i \in DOMAIN scored |-> scored[i].score])

\* A recommender that answers an unknown student as the matcher does, with
\* an empty list.
getRecommendedProjects_results_UnknownGetsNone(im, student, allProjects) ==
    IF ~student.found THEN {<<>>}
    ELSE IF im = "memOld" \/ NoSkillsOnFile(student) THEN Shuffles(allProjects)
    ELSE {scoredProjects(student, allProjects)}

\* The lists getRecommendedProjects can return, in the class im.
getRecommendedProjects_results(im, student, allProjects) ==
    CASE im \in {"supabase", "mem"} ->
            IF NoSkillsOnFile(student) THEN Shuffles(allProjects)
            ELSE {scoredProjects(student, allProjects)}
      [] im = "memOld" ->
            IF ~student.found THEN {allProjects} ELSE Shuffles(allProjects)

\* The try/catch of GET /api/projects/:studentId and of GET /api/projects.
GetProjects_respond(r) ==
    IF r.threw THEN JsonFailure(r, 500, "Failed to get projects")
    ELSE JsonSuccess(r)

\* A getProjects that hands out the stored array itself, which sort() then
\* reorders in place.
projectsAfterSort_Aliased(stored, sorted) == sorted

\* The stored projects after getRecommendedProjects has sorted its list in
\* place: getProjects hands out a new array (Array.from of the map's values,
\* or the rows of a query), so the store keeps its own.
projectsAfterSort(stored, sorted) == stored

\* GET /api/projects/:studentId
GetRecommendedProjects ==
    /\ Idle
    /\ \E studentId \in StudentIds,
          failStudent \in (IF impl = "supabase" THEN BOOLEAN ELSE {FALSE}),
          failCatalog \in (IF impl = "supabase" THEN BOOLEAN ELSE {FALSE}) :
         LET student == getStudent(impl, students, studentId, failStudent)
             all == getProjects(impl, projects, failCatalog)
         IN  \E list \in getRecommendedProjects_results(impl, student, all) :
               /\ resp' = [GetProjects_respond(
                              [NoResp EXCEPT !.op = "getRecommendedProjects",
                                  !.studentId = studentId, !.student = student,
                                  !.catalog = all, !.list = list])
                              EXCEPT !.route = "GET /api/projects/:studentId",
                                     !.failed = FailedReads(failStudent, failCatalog,
                                                            "projects")]
               /\ projects' = projectsAfterSort(projects, list)
    /\ UNCHANGED <<impl, students, internships, rest>>

\* GET /api/projects
GetAllProjects ==
    /\ Idle
    /\ \E failCatalog \in (IF impl = "supabase" THEN BOOLEAN ELSE {FALSE}) :
         LET all == getProjects(impl, projects, failCatalog)
         IN  resp' = [GetProjects_respond(
                         [NoResp EXCEPT !.op = "getProjects", !.catalog = all,
                                        !.list = all])
                         EXCEPT !.route = "GET /api/projects",
                                !.failed = FailedReads(FALSE, failCatalog, "projects")]
    /\ UNCHANGED <<impl, students, internships, projects, rest>>

----------------------------------------------------------------------------
(* Concurrent profile writes *)

\* A write request not yet received. pc tells how far the handler has run:
\* received, read (updateStudent holds the existing row), executed (the
\* storage call has returned), answered.
NoRequest ==
    [pc |-> "none", kind |-> "", id |-> "", body |-> NoResp.body, fail |-> FALSE,
     existing |-> NoStudent, status |-> 0]

NoRace ==
    [initial |-> [id \in StudentIds |-> NoStudent],
     requests |-> [k \in 1..MaxRequests |-> NoRequest],
     applied |-> <<>>]

\* The bodies of the requests in flight together.
RaceCreates ==
    {StudentBody(Str("Asha"), Str("asha@example.com"), Arr(<<"React">>), Undefined)}

RaceUpdates ==
    {StudentBody(Str("Ravi"), Undefined, Undefined, Undefined),
     StudentBody(Undefined, Undefined, Arr(<<"Linux">>), Undefined),
     StudentBody(Str("Mira"), Undefined, Arr(<<"Python">>), Undefined)}

\* The storage call of a write and the status the route answers with, run
\* on a store without interruption.
WriteOutcome(store, req) ==
    IF req.kind = "create"
    THEN LET id == NextId(store, StudentIds)
             failed == /\ impl = "supabase"
                       /\ req.fail \/ EmailTaken(store, StrOf(req.body.email), id)
         IN  IF failed THEN [store |-> store, status |-> 400]
             ELSE [store |-> [store EXCEPT ![id] =
                                 IF impl = "supabase"
                                 THEN SupabaseStorage_createStudent(id, req.body)
                                 ELSE MemStorage_createStudent(id, req.body)],
                   status |-> 200]
    ELSE LET failed == /\ impl = "supabase"
                       /\ \/ req.fail
                          \/ /\ Present(req.body.email) /\ store[req.id].found
                             /\ EmailTaken(store, StrOf(req.body.email), req.id)
         IN  IF failed \/ ~store[req.id].found
             THEN [store |-> store, status |-> 404]
             ELSE [store |-> [store EXCEPT ![req.id] =
                                 IF impl = "supabase"
                                 THEN SupabaseStorage_updateStudent(store[req.id], req.body)
                                 ELSE MemStorage_updateStudent(store[req.id], req.body)],
                   status |-> 200]

\* An updateStudent that awaits between reading the existing row and
\* writing the merged one.
updateStudentYields_BetweenGetAndSet == TRUE

\* Whether updateStudent gives up control between reading the existing row
\* and writing: MemStorage runs students.get and students.set with no await
\* between them, SupabaseStorage sends one UPDATE statement.
updateStudentYields == FALSE

\* The request slots are taken in order.
NextRequest == CHOOSE k \in 1..MaxRequests :
                  /\ race.requests[k].pc = "none"
                  /\ \A j \in 1..(k - 1) : race.requests[j].pc # "none"

\* Creates received and not yet executed.
CreatesWaiting ==
    {k \in 1..MaxRequests :
        race.requests[k].kind = "create" /\ race.requests[k].pc = "received"}

\* POST /api/onboard or PUT /api/student/:id arrives while other writes
\* are in flight.
ReceiveWrite ==
    /\ \E k \in 1..MaxRequests : race.requests[k].pc = "none"
    /\ \E kind \in {"create", "update"},
          fail \in (IF impl = "supabase" THEN BOOLEAN ELSE {FALSE}) :
        \E body \in (IF kind = "create" THEN RaceCreates ELSE RaceUpdates) :
          /\ kind = "create" =>
                Cardinality({id \in StudentIds : students[id].found})
                    + Cardinality(CreatesWaiting) < Cardinality(StudentIds)
          /\ race' = [race EXCEPT !.requests[NextRequest] =
                         [NoRequest EXCEPT !.pc = "received", !.kind = kind,
                              !.id = IF kind = "update" THEN IdOrder[1] ELSE "",
                              !.body = body, !.fail = fail]]
    /\ UNCHANGED <<impl, students, internships, projects, resp, wizard, finder, feed>>

\* The storage call of a request in flight runs: createStudent and
\* updateStudent from the call to the returned promise, unless updateStudent
\* yields after reading the existing row and writes in a later turn.
ExecuteWrite ==
    \E k \in 1..MaxRequests :
        LET req == race.requests[k]
            out == WriteOutcome(students, req)
            late == WriteOutcome([students EXCEPT ![req.id] = req.existing], req)
        IN
        /\ req.pc \in {"received", "read"}
        /\ IF req.pc = "received" /\ req.kind = "update" /\ updateStudentYields
           THEN /\ race' = [race EXCEPT !.requests[k].pc = "read",
                                        !.requests[k].existing = students[req.id]]
                /\ students' = students
           ELSE IF req.pc = "read"
           THEN /\ students' = [students EXCEPT ![req.id] =
                                   IF late.status = 200 THEN late.store[req.id] ELSE @]
                /\ race' = [race EXCEPT !.requests[k].pc = "executed",
                                        !.requests[k].status = late.status,
                                        !.applied = Append(@, k)]
           ELSE /\ students' = out.store
                /\ race' = [race EXCEPT !.requests[k].pc = "executed",
                                        !.requests[k].status = out.status,
                                        !.applied = Append(@, k)]
        /\ UNCHANGED <<impl, internships, projects, resp, wizard, finder, feed>>

\* res.json / res.status(...).json of a request whose storage call returned.
AnswerWrite ==
    /\ \E k \in 1..MaxRequests :
        /\ race.requests[k].pc = "executed"
        /\ race' = [race EXCEPT !.requests[k].pc = "answered"]
    /\ UNCHANGED <<impl, students, internships, projects, resp, wizard, finder, feed>>

----------------------------------------------------------------------------
(* Onboarding wizard *)

\* The two Onboarding components of the repository: pages/Onboarding.tsx,
\* with one submit handler for each step, and the one with processStep.
WizardVariants == {"Onboarding.tsx", "processStep"}

\* A number held where it may be undefined.
Num(v) == [kind |-> "number", items |-> <<v>>]

\* useState({}): no field collected yet.
NoData ==
    [name |-> Undefined, email |-> Undefined, year |-> Undefined,
     skills |-> Undefined, interests |-> Undefined]

\* The page is not open.
NoWizard ==
    [variant |-> "", backType |-> "", currentStep |-> 0, studentData |-> NoData,
     personal |-> [name |-> "", email |-> "", year |-> Undefined],
     skills |-> <<>>, interests |-> <<>>,
     isPending |-> FALSE, sent |-> NoData, sentFrom |-> 0, left |-> FALSE]

\* The page as it mounts: step 1, empty forms. backType is the type of the
\* Back buttons: "button" where the JSX says so, and either value of the
\* Button component's default where it does not.
OpenWizard(variant, backType) ==
    [NoWizard EXCEPT !.variant = variant, !.backType = backType, !.currentStep = 1]

\* What the user can type or pick.
FormNames == {"A", "Asha"}
FormEmails == {"asha", "asha@example.com"}
FormYears(variant) ==
    IF variant = "Onboarding.tsx" THEN {Undefined, Num(1), Num(4)} ELSE {Undefined}
WizardSkills == {"React"}
WizardInterests == {"Web Development"}

\* z.string().email(): something, an @, something, a dot, something.
IsEmail(text) ==
    LET c == Chars[text]
    IN  \E i, j \in DOMAIN c :
           /\ 1 < i /\ i + 1 < j /\ j < Len(c)
           /\ c[i] = "@" /\ c[j] = "."
           /\ \A k \in DOMAIN c : c[k] = "@" => k = i

\* personalInfoSchema: Onboarding.tsx asks for name, email and a year from
\* 1 to 4; the processStep component for name and email.
personalInfoSchema(variant, form) ==
    /\ Len(Chars[form.name]) >= 2
    /\ IsEmail(form.email)
    /\ variant = "Onboarding.tsx" =>
          /\ form.year.kind = "number"
          /\ form.year.items[1] >= 1 /\ form.year.items[1] <= 4

\* skillsSchema, interestsSchema: z.array(z.string()).min(1)
arrayMin1(list) == Len(list) >= 1

\* The data handleSubmit hands to the handler of the step: the fields of
\* that step's form.
StepData(w, step) ==
    CASE step = 1 ->
            [NoData EXCEPT !.name = Str(w.personal.name), !.email = Str(w.personal.email),
                           !.year = IF w.variant = "Onboarding.tsx"
                                    THEN w.personal.year ELSE Undefined]
      [] step = 2 -> [NoData EXCEPT !.skills = Arr(w.skills)]
      [] step = 3 -> [NoData EXCEPT !.interests = Arr(w.interests)]

\* The resolver of the step's form accepts its values.
StepValid(w, step) ==
    CASE step = 1 -> personalInfoSchema(w.variant, w.personal)
      [] step = 2 -> arrayMin1(w.skills)
      [] step = 3 -> arrayMin1(w.interests)

\* { ...studentData, ...data }
Spread(studentData, data) ==
    [f \in DOMAIN studentData |-> IF Present(data[f]) THEN data[f] ELSE studentData[f]]

\* The submit handler of the step, run on valid data: handlePersonalInfoSubmit,
\* handleSkillsSubmit and handleInterestsSubmit of Onboarding.tsx, or
\* processStep. step is the currentStep of the render that made the handler.
SubmitHandler(w, step) ==
    LET merged == Spread(w.studentData, StepData(w, step))
    IN  IF step = 3
        THEN [w EXCEPT !.studentData = IF w.variant = "processStep" THEN merged ELSE @,
                       !.sent = merged, !.sentFrom = w.currentStep,
                       !.isPending = TRUE]
        ELSE [w EXCEPT !.studentData = merged, !.currentStep = step + 1]

\* field.onChange of the inputs of step 1.
EditPersonal ==
    /\ wizard.currentStep = 1 /\ ~wizard.left
    /\ \E name \in FormNames, email \in FormEmails, year \in FormYears(wizard.variant) :
        wizard' = [wizard EXCEPT !.personal = [name |-> name, email |-> email,
                                                year |-> year]]
    /\ UNCHANGED <<impl, students, internships, projects, resp, race, finder, feed>>

\* onCheckedChange of a checkbox of step 2 or 3: the entry is appended when
\* the box gets checked and filtered out when it gets unchecked.
ToggleCheckbox ==
    /\ wizard.currentStep \in {2, 3} /\ ~wizard.left
    /\ LET toggle(list, x) == IF x \in SetOf(list)
                              THEN SelectSeq(list, LAMBDA y : y # x)
                              ELSE Append(list, x)
       IN  IF wizard.currentStep = 2
           THEN \E skill \in WizardSkills :
                   wizard' = [wizard EXCEPT !.skills = toggle(@, skill)]
           ELSE \E interest \in WizardInterests :
                   wizard' = [wizard EXCEPT !.interests = toggle(@, interest)]
    /\ UNCHANGED <<impl, students, internships, projects, resp, race, finder, feed>>

\* The submit button of the current step: handleSubmit validates and, on
\* valid data, runs the handler. The button of step 3 is disabled while the
\* mutation is pending.
SubmitStep ==
    /\ wizard.currentStep \in 1..3 /\ ~wizard.left
    /\ wizard.currentStep = 3 => ~wizard.isPending
    /\ StepValid(wizard, wizard.currentStep)
    /\ wizard' = SubmitHandler(wizard, wizard.currentStep)
    /\ UNCHANGED <<impl, students, internships, projects, resp, race, finder, feed>>

\* The Back button of step 2 or 3: setCurrentStep(step - 1). A Back button
\* of type submit then submits the form it stands in, and on valid data the
\* handler made for this step runs after the click handler.
Back ==
    /\ wizard.currentStep \in {2, 3} /\ ~wizard.left
    /\ LET back == [wizard EXCEPT !.currentStep = @ - 1]
       IN  wizard' = IF wizard.backType = "submit"
                        /\ StepValid(wizard, wizard.currentStep)
                     THEN SubmitHandler(back, wizard.currentStep)
                     ELSE back
    /\ UNCHANGED <<impl, students, internships, projects, resp, race, finder, feed>>

\* The POST /api/onboard of the mutation settles: onSuccess leaves for
\* /internships, onError shows a toast. The server accepts no body without
\* a year (insertStudentSchema).
MutationSettles ==
    /\ wizard.isPending /\ ~wizard.left
    /\ \E ok \in BOOLEAN :
        /\ ok => Present(wizard.sent.year)
        /\ wizard' = [wizard EXCEPT !.isPending = FALSE, !.left = ok]
    /\ UNCHANGED <<impl, students, internships, projects, resp, race, finder, feed>>

----------------------------------------------------------------------------
(* Internship finder page *)

\* The answers POST /api/find-internships gives the page: a body with its
\* internships (named by their ids), or an error handleRequest throws.
FinderLists == {<<>>, <<1>>, <<2, 1>>}

FinderErrors == {"Failed to find internships", "Network Error"}

\* InternshipFinder before its effect has run: loading false, no
\* internships, error null (""), filters { location: "", remote: false }.
\* requests lists the loadJobs calls in the order they were issued;
\* overlapped records that one was issued while another was in flight.
NoFinder ==
    [mounted |-> FALSE, loading |-> FALSE, internships |-> <<>>, error |-> "",
     filters |-> [location |-> "", remote |-> FALSE],
     requests |-> <<>>, overlapped |-> FALSE]

Pending(f) == {k \in DOMAIN f.requests : f.requests[k].pending}

\* loadJobs up to its await: setLoading(true), setError(null), and the
\* request for payload ?? { profile, filters }.
loadJobs(f, from) ==
    [f EXCEPT !.mounted = TRUE, !.loading = TRUE, !.error = "",
              !.overlapped = f.overlapped \/ Pending(f) # {},
              !.requests = Append(f.requests,
                               [from |-> from, filters |-> f.filters, pending |-> TRUE,
                                ok |-> FALSE, internships |-> <<>>, message |-> ""])]

\* useEffect(() => { loadJobs() }, [])
InitialLoad ==
    /\ ~finder.mounted
    /\ finder' = loadJobs(finder, "mount")
    /\ UNCHANGED <<impl, students, internships, projects, resp, race, wizard, feed>>

\* The Refresh and Apply buttons.
Refresh ==
    /\ finder.mounted
    /\ Len(finder.requests) < MaxRequests
    /\ finder' = loadJobs(finder, "Refresh")
    /\ UNCHANGED <<impl, students, internships, projects, resp, race, wizard, feed>>

Apply ==
    /\ finder.mounted
    /\ Len(finder.requests) < MaxRequests
    /\ finder' = loadJobs(finder, "Apply")
    /\ UNCHANGED <<impl, students, internships, projects, resp, race, wizard, feed>>

\* The location input and the Remote only checkbox.
SetFilters ==
    /\ finder.mounted
    /\ \E location \in {"", "Remote"}, remote \in BOOLEAN :
         /\ [location |-> location, remote |-> remote] # finder.filters
         /\ finder' = [finder EXCEPT !.filters = [location |-> location,
                                                   remote |-> remote]]
    /\ UNCHANGED <<impl, students, internships, projects, resp, race, wizard, feed>>

\* A request's answer arrives and loadJobs resumes in its try: the list of
\* the body is shown; finally, setLoading(false).
LoadJobsResumes ==
    /\ \E k \in Pending(finder), list \in FinderLists :
         finder' = [finder EXCEPT !.internships = list, !.loading = FALSE,
                        !.requests[k] = [@ EXCEPT !.pending = FALSE, !.ok = TRUE,
                                                 !.internships = list]]
    /\ UNCHANGED <<impl, students, internships, projects, resp, race, wizard, feed>>

\* A request fails and loadJobs resumes in its catch: the message is shown
\* and the list emptied; finally, setLoading(false).
LoadJobsCatches ==
    /\ \E k \in Pending(finder), message \in FinderErrors :
         finder' = [finder EXCEPT !.error = message, !.internships = <<>>,
                        !.loading = FALSE,
                        !.requests[k] = [@ EXCEPT !.pending = FALSE, !.ok = FALSE,
                                                 !.message = message]]
    /\ UNCHANGED <<impl, students, internships, projects, resp, race, wizard, feed>>

----------------------------------------------------------------------------
(* Real-time internship subscription *)

\* Before getRealTimeInternships is called. state is that of the channel;
\* fetching counts the change handlers waiting for their getInternships;
\* delivered is the list the callback was last called with. unsubscribed,
\* fetchingAtUnsubscribe and lateCalls record the call of the function
\* returned, the handlers waiting at that moment, and the callback's calls
\* after it.
NoFeed ==
    [state |-> "none", fetching |-> 0, calls |-> 0, delivered |-> <<>>,
     unsubscribed |-> FALSE, fetchingAtUnsubscribe |-> 0, lateCalls |-> 0]

\* getRealTimeInternships(callback): the channel subscribes, or the setup
\* throws and the function returned is empty.
Subscribe ==
    /\ feed.state = "none"
    /\ \E threw \in BOOLEAN :
         feed' = [feed EXCEPT !.state = IF threw THEN "failed" ELSE "subscribed"]
    /\ UNCHANGED <<impl, students, internships, projects, resp, race, wizard, finder>>

\* A row is inserted into the internships table; a subscribed channel runs
\* its handler, which starts await this.getInternships().
InternshipInserted ==
    /\ Len(internships) < MaxCatalog
    /\ internships' = Append(internships,
                             Internship(Len(internships) + 1, "Remote", Arr(<<"React">>)))
    /\ feed' = [feed EXCEPT !.fetching = IF feed.state = "subscribed" THEN @ + 1 ELSE @]
    /\ UNCHANGED <<impl, students, projects, resp, race, wizard, finder>>

\* A handler's getInternships returns and the handler calls
\* callback(updatedInternships).
HandlerResumes ==
    /\ feed.fetching > 0
    /\ \E fail \in BOOLEAN :
         feed' = [feed EXCEPT !.fetching = @ - 1, !.calls = @ + 1,
                      !.delivered = getInternships(impl, internships, fail),
                      !.lateCalls = IF feed.unsubscribed THEN @ + 1 ELSE @]
    /\ UNCHANGED <<impl, students, internships, projects, resp, race, wizard, finder>>

\* The function getRealTimeInternships returned is called:
\* subscription.unsubscribe(), or nothing when the setup had thrown.
Unsubscribe ==
    /\ feed.state \in {"subscribed", "failed"}
    /\ ~feed.unsubscribed
    /\ feed' = [feed EXCEPT !.state = IF @ = "subscribed" THEN "closed" ELSE @,
                            !.unsubscribed = TRUE,
                            !.fetchingAtUnsubscribe = feed.fetching]
    /\ UNCHANGED <<impl, students, internships, projects, resp, race, wizard, finder>>

\* The variables of the parts a specification leaves out, at rest.
Elsewhere ==
    race = NoRace /\ wizard = NoWizard /\ finder = NoFinder /\ feed = NoFeed

----------------------------------------------------------------------------
(* Specifications *)

\* The skills a stored student can carry: SupabaseStorage keeps what the body
\* gave (the column default [] for an absent one), MemStorage always an array.
StoredSkills(im, pool) ==
    {Arr(l) : l \in SeqsUpTo(pool, MaxSkills)}
        \cup (IF im = "supabase" THEN {Null} ELSE {})

\* The stores that onboarding and profile updates lead to.
StoreStates(im, pool) ==
    {[id \in StudentIds |-> IF id \in NewIds THEN r[id] ELSE NoStudent] :
        r \in [NewIds -> {NoStudent} \cup
                    UNION {{Student(id, sk) : sk \in StoredSkills(im, pool)} : id \in NewIds}]}

\* The catalogs of a specification that does not read them: empty tables in
\* the database, the sample data of a MemStorage.
RestingInternships(im) ==
    CASE im = "supabase" -> <<>>
      [] im = "mem" -> sampleInternships
      [] im = "memOld" -> oldSampleInternships

RestingProjects(im) ==
    CASE im = "supabase" -> <<>>
      [] im = "mem" -> sampleProjects
      [] im = "memOld" -> oldSampleProjects

\* The projects the storage holds: any table of the database, the sample
\* data of a MemStorage.
ProjectStates(im) ==
    CASE im = "supabase" -> ProjectTables
      [] im = "mem" -> {sampleProjects}
      [] im = "memOld" -> {oldSampleProjects}

\* The internships the storage holds: any table of the database, the sample
\* data of a MemStorage.
InternshipStates(im) ==
    CASE im = "supabase" -> InternshipTables
      [] im = "mem" -> {sampleInternships}
      [] im = "memOld" -> {oldSampleInternships}

\* The student store: after construction, then onboarding and updates.
InitStore ==
    /\ impl \in Impls
    /\ students = [id \in StudentIds |-> NoStudent]
    /\ internships \in InternshipStates(impl)
    /\ projects = RestingProjects(impl)
    /\ resp = NoResp
    /\ Elsewhere

NextStore == Onboard \/ UpdateStudent \/ EndRequest

SpecStore == InitStore /\ [][NextStore]_vars

\* Every store SpecStore reaches is one of StoreStates.
StoreReachable == students \in StoreStates(impl, SkillPool)

\* The internship matcher, on every store and catalog.
Init ==
    /\ impl \in Impls
    /\ students \in StoreStates(impl, MatchSkills)
    /\ internships \in InternshipStates(impl)
    /\ projects = RestingProjects(impl)
    /\ resp = NoResp
    /\ Elsewhere

Next == GetFindInternships \/ PostFindInternships(IdBodies) \/ EndRequest

Spec == Init /\ [][Next]_vars

\* Skills arrays of students who have all, or all but the last, of
\* MemStorage's "DevOps Engineer" skills.
ExpertSkills ==
    { Arr(<<"Docker", "Kubernetes", "AWS", "CI/CD", "Linux">>),
      Arr(<<"Docker", "Kubernetes", "AWS", "CI/CD">>) }

\* The stores in which such a student has onboarded.
ExpertStores ==
    {[id \in StudentIds |-> IF id \in NewIds THEN Student(id, skills) ELSE NoStudent] :
        skills \in ExpertSkills}

\* The skill-gap analyzer, on every store.
InitGap ==
    /\ impl \in Impls
    /\ students \in StoreStates(impl, GapSkills) \cup ExpertStores
    /\ internships = RestingInternships(impl)
    /\ projects = RestingProjects(impl)
    /\ resp = NoResp
    /\ Elsewhere

NextGap == PostSkillGap \/ EndRequest

SpecGap == InitGap /\ [][NextGap]_vars

\* Skills of the students whose matches are requested twice.
RepeatSkills == {"React", "Java"}

\* The matcher asked twice, on every store and every catalog shorter than
\* the longest.
InitRepeat ==
    /\ impl \in Impls
    /\ students \in StoreStates(impl, RepeatSkills)
    /\ internships \in {t \in InternshipStates(impl) :
                            impl = "supabase" => Len(t) < MaxCatalog}
    /\ projects = RestingProjects(impl)
    /\ resp = NoResp
    /\ Elsewhere

NextRepeat == GetFindInternships \/ GetFindInternshipsAgain \/ EndRequest

SpecRepeat == InitRepeat /\ [][NextRepeat]_vars

\* The search, on every table of sample rows and on the sample data.
InitSearch ==
    /\ impl \in {"supabase", "mem"}
    /\ students \in StoreStates(impl, {})
    /\ internships \in (IF impl = "supabase" THEN SearchTables
                         ELSE {sampleInternships})
    /\ projects = RestingProjects(impl)
    /\ resp = NoResp
    /\ Elsewhere

NextSearch == SearchInternships \/ EndRequest

SpecSearch == InitSearch /\ [][NextSearch]_vars

\* The four engine calls in any order, on the sample data and on databases
\* whose tables are one row short of the longest: the first sample
\* internships, any projects.
InitEngine ==
    /\ impl \in Impls
    /\ students \in StoreStates(impl, {"React"})
    /\ internships = (IF impl = "supabase"
                      THEN SubSeq(sampleInternships, 1, MaxCatalog - 1)
                      ELSE RestingInternships(impl))
    /\ projects \in {t \in ProjectStates(impl) :
                         impl = "supabase" => Len(t) = MaxCatalog - 1}
    /\ resp = NoResp
    /\ Elsewhere

NextEngine ==
    \/ GetFindInternships
    \/ GetRecommendedProjects
    \/ SearchInternships
    \/ PostSkillGap
    \/ EndRequest

SpecEngine == InitEngine /\ [][NextEngine]_vars

\* The read paths in any order, on the same stores.
NextReads ==
    \/ GetInternships
    \/ GetAllProjects
    \/ SearchInternships
    \/ GetFindInternships
    \/ GetRecommendedProjects
    \/ EndRequest

SpecReads == InitEngine /\ [][NextReads]_vars

\* Skills of the students the project recommender is checked with.
ProjectSkills == {"React", "JavaScript"}

\* The project recommender, on every store and project catalog.
InitProjects ==
    /\ impl \in Impls
    /\ students \in StoreStates(impl, ProjectSkills)
    /\ internships = RestingInternships(impl)
    /\ projects \in ProjectStates(impl)
    /\ resp = NoResp
    /\ Elsewhere

NextProjects == GetRecommendedProjects \/ GetAllProjects \/ EndRequest

SpecProjects == InitProjects /\ [][NextProjects]_vars

\* The student writes with two students and full bodies: both emails, a
\* second name, skills and interests supplied, withheld or null.
OnboardBodies ==
    {StudentBody(Str("Asha"), Str(email), skills, Undefined) :
        email \in Emails, skills \in {Undefined, Arr(<<"React">>)}}

UpdateBodies ==
    {StudentBody(name, email, skills, interests) :
        name \in {Undefined, Str("Ravi")},
        email \in {Undefined} \cup {Str(e) : e \in Emails},
        skills \in {Undefined, Null, Arr(<<"Linux">>)},
        interests \in {Undefined, Arr(<<"Web">>)}}

OnboardAny == OnboardWith(StudentIds, OnboardBodies)

UpdateAny == UpdateStudentWith(UpdateBodies)

InitWrites ==
    /\ impl \in Impls
    /\ students = [id \in StudentIds |-> NoStudent]
    /\ internships = RestingInternships(impl)
    /\ projects = RestingProjects(impl)
    /\ resp = NoResp
    /\ Elsewhere

NextWrites == OnboardAny \/ UpdateAny \/ GetStudentByEmail \/ EndRequest

SpecWrites == InitWrites /\ [][NextWrites]_vars

\* Profile writes of a MemStorage whose PUT bodies may carry an id: that of
\* the student, that of another one, or none.
BodiesWithId ==
    {StudentBody(Undefined, Undefined, skills, Undefined) :
        skills \in {Undefined, Arr(<<"Linux">>)}}
    \cup {WithId(id, StudentBody(Undefined, Undefined, skills, Undefined)) :
            id \in StudentIds, skills \in {Undefined, Arr(<<"Linux">>)}}

UpdateWithId == UpdateStudentWith(BodiesWithId)

InitIds ==
    /\ impl \in {"mem", "memOld"}
    /\ students = [id \in StudentIds |-> NoStudent]
    /\ internships = RestingInternships(impl)
    /\ projects = RestingProjects(impl)
    /\ resp = NoResp
    /\ Elsewhere

NextIds == OnboardAny \/ UpdateWithId \/ EndRequest

SpecIds == InitIds /\ [][NextIds]_vars

\* The two calls that look a student up before they answer, on every
\* store.
InitLookup ==
    /\ impl \in Impls
    /\ students \in StoreStates(impl, {"React"})
    /\ internships = (IF impl = "supabase"
                      THEN SubSeq(sampleInternships, 1, MaxCatalog - 1)
                      ELSE RestingInternships(impl))
    /\ projects = RestingProjects(impl)
    /\ resp = NoResp
    /\ Elsewhere

NextLookup == PostSkillGap \/ GetFindInternships \/ EndRequest

SpecLookup == InitLookup /\ [][NextLookup]_vars

\* POST /api/find-internships with every shape of body: with and without
\* studentId, profile and filters.
PostedBodies ==
    {Body(id, profile, filters) :
        id \in {"", IdOrder[1]},
        profile \in {NoProfile} \cup
                    {[present |-> TRUE, skills |-> sk] :
                        sk \in {Undefined, Arr(<<"React">>), Arr(<<"Python">>)}},
        filters \in {NoFilters} \cup
                    {[present |-> TRUE, location |-> l, remote |-> r] :
                        l \in {"", "Bangalore", "remote"},
                        r \in {"undefined", "true", "false"}}}

PostFindInternshipsAny == PostFindInternships(PostedBodies)

InitDispatch ==
    /\ impl \in Impls
    /\ students \in StoreStates(impl, {"React"})
    /\ internships = (IF impl = "supabase"
                      THEN SubSeq(sampleInternships, 1, MaxCatalog - 1)
                      ELSE RestingInternships(impl))
    /\ projects = RestingProjects(impl)
    /\ resp = NoResp
    /\ Elsewhere

NextDispatch == PostFindInternshipsAny \/ EndRequest

SpecDispatch == InitDispatch /\ [][NextDispatch]_vars

\* POST /api/find-internships with a profile alone: every list of profile
\* skills, against the sample catalog or a table whose rows require no
\* skill or one.
ProfileSkillPool == {"React", "react", "Java"}

ProfileReqPool == {Null, Arr(<<>>), Arr(<<"React">>), Arr(<<"JavaScript">>)}

ProfileBodies ==
    {Body("", [present |-> TRUE, skills |-> sk], NoFilters) :
        sk \in {Undefined} \cup {Arr(s) : s \in SeqsUpTo(ProfileSkillPool, MaxSkills)}}

PostProfile == PostFindInternships(ProfileBodies)

InitProfile ==
    /\ impl \in Impls
    /\ students = [id \in StudentIds |-> NoStudent]
    /\ internships \in
         (IF impl = "supabase"
          THEN {[i \in 1..(MaxCatalog - 1) |-> Internship(i, "Remote", f[i])] :
                   f \in [1..(MaxCatalog - 1) -> ProfileReqPool]}
          ELSE {RestingInternships(impl)})
    /\ projects = RestingProjects(impl)
    /\ resp = NoResp
    /\ Elsewhere

NextProfile == PostProfile \/ EndRequest

SpecProfile == InitProfile /\ [][NextProfile]_vars

\* The older matcher as a function of the skills and the requiredSkills:
\* any student, any catalog one row short of the longest whose rows require
\* no skill, one skill, or three.
LooseSkills == {"React", "react"}

LooseReqPool ==
    {Null, Arr(<<>>), Arr(<<"React">>), Arr(<<"React", "JavaScript", "CSS">>)}

InitLoose ==
    /\ impl = "memOld"
    /\ students \in StoreStates(impl, LooseSkills)
    /\ internships \in {[i \in 1..(MaxCatalog - 1) |-> Internship(i, "Remote", f[i])] :
                            f \in [1..(MaxCatalog - 1) -> LooseReqPool]}
    /\ projects = RestingProjects(impl)
    /\ resp = NoResp
    /\ Elsewhere

NextLoose == GetFindInternships \/ EndRequest

SpecLoose == InitLoose /\ [][NextLoose]_vars

\* The onboarding page of either component, from its mount.
InitWizard ==
    /\ impl = "mem"
    /\ students = [id \in StudentIds |-> NoStudent]
    /\ internships = RestingInternships(impl)
    /\ projects = RestingProjects(impl)
    /\ resp = NoResp
    /\ race = NoRace
    /\ finder = NoFinder
    /\ feed = NoFeed
    /\ wizard \in {OpenWizard("Onboarding.tsx", "button"),
                    OpenWizard("processStep", "button"),
                    OpenWizard("processStep", "submit")}

NextWizard == EditPersonal \/ ToggleCheckbox \/ SubmitStep \/ Back \/ MutationSettles

SpecWizard == InitWizard /\ [][NextWizard]_vars

\* The internship finder page from its mount.
InitFinder ==
    /\ impl = "mem"
    /\ students = [id \in StudentIds |-> NoStudent]
    /\ internships = RestingInternships(impl)
    /\ projects = RestingProjects(impl)
    /\ resp = NoResp
    /\ race = NoRace
    /\ wizard = NoWizard
    /\ finder = NoFinder
    /\ feed = NoFeed

NextFinder ==
    InitialLoad \/ Refresh \/ Apply \/ SetFilters \/ LoadJobsResumes \/ LoadJobsCatches

SpecFinder == InitFinder /\ [][NextFinder]_vars

\* The real-time subscription of a SupabaseStorage, from an empty table.
InitFeed ==
    /\ impl = "supabase"
    /\ students = [id \in StudentIds |-> NoStudent]
    /\ internships = <<>>
    /\ projects = RestingProjects(impl)
    /\ resp = NoResp
    /\ race = NoRace
    /\ wizard = NoWizard
    /\ finder = NoFinder
    /\ feed = NoFeed

NextFeed == Subscribe \/ InternshipInserted \/ HandlerResumes \/ Unsubscribe

SpecFeed == InitFeed /\ [][NextFeed]_vars

\* Profile writes in flight together, on an empty store and on a store
\* with one student.
InitRace ==
    /\ impl \in Impls
    /\ students \in {[id \in StudentIds |-> NoStudent],
                     [id \in StudentIds |->
                         IF id = IdOrder[1] THEN Student(id, Arr(<<"React">>))
                         ELSE NoStudent]}
    /\ internships = RestingInternships(impl)
    /\ projects = RestingProjects(impl)
    /\ resp = NoResp
    /\ race = [NoRace EXCEPT !.initial = students]
    /\ wizard = NoWizard
    /\ finder = NoFinder
    /\ feed = NoFeed

NextRace == ReceiveWrite \/ ExecuteWrite \/ AnswerWrite

SpecRace == InitRace /\ [][NextRace]_vars

----------------------------------------------------------------------------
(* Properties of the internship matcher *)

\* The storage classes whose findInternships counts exact matches.
Exact == {"supabase", "mem"}

IsFind == resp.op = "findInternships"

AllPositive(list) == \A i \in DOMAIN list : list[i].matchScore > 0

NonIncreasing(list) ==
    \A i \in 1..(Len(list) - 1) : list[i].matchScore >= list[i + 1].matchScore

HasNoSkills(student) == student.found /\ OrEmpty(student.skills) = <<>>

Overlap(skills, requiredSkills) ==
    Cardinality({k \in DOMAIN OrEmpty(requiredSkills) :
        \E j \in DOMAIN OrEmpty(skills) :
            OrEmpty(skills)[j] = OrEmpty(requiredSkills)[k]})

FrontendSkills == Arr(<<"React", "JavaScript", "CSS", "HTML">>)
BackendSkills == Arr(<<"Node.js", "MongoDB">>)

\* C2: matchScore is the number of requiredSkills entries that are, by exact
\* string equality, among the student's skills; the list holds exactly the
\* internships for which that number is positive; skills [React, JavaScript]
\* against [React, JavaScript, CSS, HTML] and [Node.js, MongoDB] return the
\* first alone with matchScore 2.
C2_ScoreIsExactOverlap ==
    (IsFind /\ impl \in Exact /\ resp.student.found) =>
        /\ \A i \in DOMAIN resp.list :
              resp.list[i].matchScore
                  = Overlap(resp.student.skills, resp.list[i].requiredSkills)
        /\ {resp.list[i].id : i \in DOMAIN resp.list}
              = {resp.catalog[k].id : k \in
                    {k \in DOMAIN resp.catalog :
                        Overlap(resp.student.skills, resp.catalog[k].requiredSkills) > 0}}
        /\ ( /\ resp.student.skills = Arr(<<"React", "JavaScript">>)
             /\ Len(resp.catalog) = 2
             /\ resp.catalog[1].requiredSkills = FrontendSkills
             /\ resp.catalog[2].requiredSkills = BackendSkills )
           => resp.list = <<WithMatch(resp.catalog[1], 2)>>

C2_Witness ==
    /\ IsFind /\ impl = "supabase"
    /\ resp.student.skills = Arr(<<"React", "JavaScript">>)
    /\ Len(resp.catalog) = 2
    /\ resp.catalog[1].requiredSkills = FrontendSkills
    /\ resp.catalog[2].requiredSkills = BackendSkills
    /\ Len(resp.list) = 1 /\ resp.list[1].matchScore = 2

\* The place of the internship with this id in the catalog that was read.
CatalogIndex(id) == CHOOSE k \in DOMAIN resp.catalog : resp.catalog[k].id = id

\* C3: two internships of the list with equal matchScore stand in the
\* order they have in the catalog getInternships returned.
C3_TiesKeepCatalogOrder ==
    (IsFind /\ impl \in Exact) =>
        \A i, j \in DOMAIN resp.list :
            (i < j /\ resp.list[i].matchScore = resp.list[j].matchScore)
                => CatalogIndex(resp.list[i].id) < CatalogIndex(resp.list[j].id)

\* Two internships tie, and a third that follows them in the catalog is
\* sorted ahead of both.
C3_Witness ==
    /\ IsFind /\ impl = "supabase"
    /\ Len(resp.list) = 3
    /\ resp.list[2].matchScore = resp.list[3].matchScore
    /\ resp.list[1].matchScore > resp.list[2].matchScore
    /\ CatalogIndex(resp.list[1].id) = 3

\* C4: findInternships for a student id that resolves to no profile
\* returns the empty list and raises no error, whatever the catalog.
C4_UnknownStudentEmptyList ==
    (IsFind /\ ~resp.student.found) => (resp.list = <<>> /\ ~resp.threw)

C4_Witness ==
    /\ IsFind /\ ~students[resp.studentId].found
    /\ Len(resp.catalog) > 0
    /\ resp.list = <<>>

\* C5, as claimed: a findInternships request for an unresolvable student
\* id ends in a failure reported to the caller.
C5_Original ==
    (IsFind /\ ~resp.student.found) => (resp.threw \/ ~resp.success)

\* C5, amended: a findInternships request for an unresolvable student id
\* is no error: the storage call returns the empty list and both routes
\* answer 200 with success: true.
C5_UnknownStudentIsSuccess ==
    (IsFind /\ ~resp.student.found) =>
        /\ ~resp.threw
        /\ resp.status = 200 /\ resp.success
        /\ resp.list = <<>>

C5_Witness ==
    /\ IsFind /\ resp.route = "POST /api/find-internships"
    /\ ~students[resp.studentId].found
    /\ resp.success

----------------------------------------------------------------------------
(* Properties of the skill-gap analyzer, under SpecGap *)

IsGap == resp.op = "analyzeSkillGap"

\* The names a report's list holds, in order.
Names(list) == [i \in DOMAIN list.items |-> list.items[i].name]

NoDuplicate(list) == \A i, j \in DOMAIN list : list[i] = list[j] => i = j

\* C6: analyzeSkillGap for a student id that resolves to no profile throws
\* "Student not found" and builds no report, whatever the target role; POST
\* /api/skill-gap then answers a failure (500), never success:true.
C6_UnknownStudentNotFound ==
    (IsGap /\ ~resp.student.found) =>
        /\ resp.threw
        /\ resp.error = "Student not found"
        /\ resp.report = NoReport
        /\ resp.status = 500
        /\ ~resp.success

C6_Witness ==
    /\ IsGap /\ ~resp.student.found
    /\ resp.targetRole = "Astronaut"
    /\ resp.status = 500 /\ ~resp.success

\* The keys of the role table of the class im.
RoleNames(im) ==
    CASE im = "supabase" -> DOMAIN SupabaseStorage_roleSkillMaps
      [] im = "mem" -> DOMAIN MemStorage_roleSkillMaps
      [] im = "memOld" -> DOMAIN OldMemStorage_roleSkillMaps

\* What the class im reports for the student and the default role (the
\* proficiency numbers, which C7 does not compare, all drawn as 0).
DefaultReport(im, student) ==
    LET zero == [i \in DOMAIN currentSkills(student, RequiredSkills(im, DefaultRole))
                    |-> 0]
    IN  (CASE im = "supabase" ->
                SupabaseStorage_analyzeSkillGap(student, DefaultRole, zero)
           [] im = "mem" -> MemStorage_analyzeSkillGap(student, DefaultRole)
           [] im = "memOld" -> OldMemStorage_analyzeSkillGap(student, DefaultRole)).report

SameNames(a, b) == a.kind = b.kind /\ Names(a) = Names(b)

\* C7: for an existing student and a target role that is no key of the role
\* table, analyzeSkillGap does not fail and returns the current-skill names,
\* the missing skills (with priorities) and the weeks of the default role.
C7_UnknownRoleFallsBackToDefault ==
    (IsGap /\ resp.student.found /\ resp.targetRole \notin RoleNames(impl)) =>
        /\ ~resp.threw
        /\ resp.status = 200
        /\ SameNames(resp.report.currentSkills,
                     DefaultReport(impl, resp.student).currentSkills)
        /\ resp.report.missingSkills = DefaultReport(impl, resp.student).missingSkills
        /\ resp.report.learningPlan = DefaultReport(impl, resp.student).learningPlan

\* C8: in every report of a role whose table entry was found or defaulted,
\* currentSkills names exactly the required skills the student has,
\* missingSkills exactly those the student lacks, each once.
C8_ListsPartitionRequired ==
    (/\ IsGap /\ ~resp.threw
     /\ RoleLookup(OldMemStorage_roleSkillMaps, resp.targetRole).kind # "inherited") =>
        LET required == SetOf(RequiredSkills(impl, resp.targetRole))
            has == SetOf(OrEmpty(resp.student.skills))
            current == Names(resp.report.currentSkills)
            missing == Names(resp.report.missingSkills)
        IN  /\ SetOf(current) = required \cap has
            /\ SetOf(missing) = required \ has
            /\ NoDuplicate(current) /\ NoDuplicate(missing)

IsLinuxDevOps ==
    /\ IsGap /\ ~resp.threw
    /\ resp.student.skills = Arr(<<"Linux">>)
    /\ resp.targetRole = "DevOps Engineer"

\* C9 as first stated: skills ["Linux"] and "DevOps Engineer" give Linux as
\* the current skill and Docker, Kubernetes, AWS, CI/CD as the missing ones.
C9_Original ==
    IsLinuxDevOps =>
        /\ Names(resp.report.currentSkills) = <<"Linux">>
        /\ Names(resp.report.missingSkills) = <<"Docker", "Kubernetes", "AWS", "CI/CD">>

\* The place of a skill in a role's list.
PositionIn(list, skill) == CHOOSE i \in DOMAIN list : list[i] = skill

\* C9: SupabaseStorage and MemStorage list the missing skills in the order of
\* the role's table. For skills ["Linux"] and "DevOps Engineer" the current
\* skill is Linux in every class; the missing ones are Docker, Kubernetes,
\* AWS, CI/CD in MemStorage, those four and Jenkins, Terraform, Ansible in
\* SupabaseStorage, and Docker, AWS, Kubernetes in the older MemStorage.
C9_MissingInDeclaredOrder ==
    /\ (IsGap /\ ~resp.threw /\ impl \in Exact) =>
          LET required == RequiredSkills(impl, resp.targetRole)
              missing == Names(resp.report.missingSkills)
          IN  /\ SetOf(missing) = SetOf(required) \ SetOf(OrEmpty(resp.student.skills))
              /\ \A i, j \in DOMAIN missing :
                    i < j => PositionIn(required, missing[i])
                                < PositionIn(required, missing[j])
    /\ IsLinuxDevOps =>
          /\ Names(resp.report.currentSkills) = <<"Linux">>
          /\ Names(resp.report.missingSkills) =
                (CASE impl = "mem" -> <<"Docker", "Kubernetes", "AWS", "CI/CD">>
                   [] impl = "supabase" -> <<"Docker", "Kubernetes", "AWS", "CI/CD",
                                             "Jenkins", "Terraform", "Ansible">>
                   [] impl = "memOld" -> <<"Docker", "AWS", "Kubernetes">>)

C9_Witness ==
    /\ IsLinuxDevOps /\ impl = "supabase"
    /\ Len(resp.report.missingSkills.items) = 7
    /\ resp.status = 200

----------------------------------------------------------------------------
(* Properties of the project recommender, under SpecProjects *)

IsRecommend == resp.op = "getRecommendedProjects"

\* How often a project id occurs in a list.
Occurrences(list, id) == Cardinality({i \in DOMAIN list : list[i].id = id})

\* The two lists hold the same project ids, each as often.
SameIds(a, b) ==
    /\ Len(a) = Len(b)
    /\ \A i \in DOMAIN a : Occurrences(b, a[i].id) = Occurrences(a, a[i].id)
    /\ \A i \in DOMAIN b : Occurrences(a, b[i].id) = Occurrences(b, b[i].id)

\* C10: getRecommendedProjects for a student id that is unknown, or whose
\* skills are missing or empty, returns a permutation of the project catalog
\* and raises no error.
C10_NoSkillsGetsPermutation ==
    (IsRecommend /\ NoSkillsOnFile(resp.student)) =>
        /\ ~resp.threw
        /\ resp.status = 200 /\ resp.success
        /\ SameIds(resp.list, resp.catalog)
        /\ \A i \in DOMAIN resp.list : resp.list[i] \in SetOf(resp.catalog)

C10_Witness ==
    /\ IsRecommend /\ ~resp.student.found
    /\ Len(resp.catalog) >= 3
    /\ resp.list # resp.catalog
    /\ resp.status = 200

\* The place of a project in the list getProjects returned.
ProjectIndex(id) == CHOOSE k \in DOMAIN resp.catalog : resp.catalog[k].id = id

IsScored == IsRecommend /\ impl \in Exact /\ ~NoSkillsOnFile(resp.student)

\* C11: for a student with at least one skill, SupabaseStorage and
\* MemStorage return every project of the catalog once, each with score =
\* the number of its technologies entries that are skills of the student,
\* in non-increasing order of score, ties in catalog order.
C11_AllProjectsScoredAndSorted ==
    IsScored =>
        /\ SameIds(resp.list, resp.catalog)
        /\ \A i \in DOMAIN resp.list :
              LET project == resp.catalog[ProjectIndex(resp.list[i].id)]
              IN  /\ resp.list[i].technologies = project.technologies
                  /\ resp.list[i].score =
                        Overlap(resp.student.skills, project.technologies)
        /\ \A i, j \in DOMAIN resp.list :
              i < j => /\ resp.list[i].score >= resp.list[j].score
                       /\ resp.list[i].score = resp.list[j].score
                            => ProjectIndex(resp.list[i].id) < ProjectIndex(resp.list[j].id)

\* Three projects: one scores, two tie at 0 and are kept.
C11_Witness ==
    /\ IsScored
    /\ Len(resp.list) = 3
    /\ resp.list[1].score > 0
    /\ resp.list[2].score = 0 /\ resp.list[3].score = 0
    /\ resp.list[1].id # resp.catalog[1].id

----------------------------------------------------------------------------
(* Properties of repeated calls, under SpecRepeat *)

\* The call was made twice and both calls read the same student and catalog.
IsRepeat ==
    /\ IsFind /\ resp.previous.called
    /\ resp.student = resp.previous.student
    /\ resp.catalog = resp.previous.catalog

ScoreOf(list, id) == list[CHOOSE k \in DOMAIN list : list[k].id = id].matchScore

IsReport ==
    /\ IsGap /\ ~resp.threw
    /\ isArray(resp.report.currentSkills) /\ isArray(resp.report.missingSkills)

\* The parts of a task string include the skill's name.
NamesSkill(task, skill) == \E k \in DOMAIN task : task[k] = skill

\* C13: the learning plan has min(4, number of missing skills) weekly units,
\* the i-th with the i-th missing skill as focus and with 3 to 4 tasks that
\* each name that skill.
C13_PlanFollowsMissing ==
    IsReport =>
        LET missing == Names(resp.report.missingSkills)
            weeks == resp.report.learningPlan.weeks
        IN  /\ Len(weeks) = Min(4, Len(missing))
            /\ \A i \in DOMAIN weeks :
                  /\ i \in DOMAIN missing
                  /\ weeks[i].focus = missing[i]
                  /\ Len(weeks[i].tasks) \in 3..4
                  /\ \A t \in DOMAIN weeks[i].tasks :
                        NamesSkill(weeks[i].tasks[t], missing[i])

\* MemStorage plans "Learn basics of undefined" for a student who lacks
\* nothing.
C13_UndefinedInPlan ==
    /\ IsReport /\ impl = "mem"
    /\ resp.report.missingSkills.items = <<>>
    /\ Len(resp.report.learningPlan.weeks) = 2
    /\ resp.report.learningPlan.weeks[1].focus = "Key Skill 1"
    /\ resp.report.learningPlan.weeks[1].tasks[1] = <<"Learn basics of ", "undefined">>

\* In SupabaseStorage the plan follows the missing skills.
C13_SupabasePlan == impl = "supabase" => C13_PlanFollowsMissing

\* The proficiency numbers of the report's current skills.
Proficiencies ==
    {resp.report.currentSkills.items[i].proficiency :
        i \in DOMAIN resp.report.currentSkills.items}

\* C14 as first stated: every proficiency is an integer from 60 to 100.
C14_Original == IsReport => Proficiencies \subseteq 60..100

\* C14: every proficiency is an integer: from 60 to 99 in SupabaseStorage,
\* 60 in MemStorage, one of the fixed 35 to 80 in the older MemStorage.
C14_ProficiencyBounded ==
    IsReport =>
        /\ impl = "supabase" => Proficiencies \subseteq 60..99
        /\ impl = "mem" => Proficiencies \subseteq {60}
        /\ impl = "memOld" => Proficiencies \subseteq {35, 40, 55, 60, 65, 80}

\* Two current skills in SupabaseStorage, drawn at the two ends of the range.
C14_Witness ==
    /\ IsReport /\ impl = "supabase"
    /\ Proficiencies = {60, 99}

----------------------------------------------------------------------------
(* Properties of the internship search, under SpecSearch *)

IsSearch == resp.op = "searchInternships"

\* The text occurs in the column, whatever the case of either.
Contains(column, text) == includes(toLowerCase(column), toLowerCase(text))

\* C15: searchInternships returns exactly the internships of the catalog
\* whose title, company or description contains the query and whose
\* location and stipend contain the filters given, and attaches no score.
C15_SearchAppliesQueryAndFilters ==
    IsSearch =>
        resp.list = SelectSeq(resp.catalog, LAMBDA row :
            /\ \/ Contains(row.title, resp.query)
               \/ Contains(row.company, resp.query)
               \/ Contains(row.description, resp.query)
            /\ (resp.filters.present /\ resp.filters.location # "")
                  => Contains(row.location, resp.filters.location)
            /\ (resp.filters.present /\ resp.filters.minStipend # "")
                  => Contains(row.stipend, resp.filters.minStipend))

\* SupabaseStorage, asked for "react" in Bangalore, returns an internship
\* that does not mention it.
C15_QueryDropped ==
    /\ IsSearch /\ impl = "supabase"
    /\ resp.query = "react" /\ resp.filters = SearchFilters("Bangalore", "")
    /\ Len(resp.list) = 1 /\ resp.list[1].title = "ML Engineer Intern"

\* MemStorage, asked for "react" in Bangalore, returns a remote internship.
C15_FiltersIgnored ==
    /\ IsSearch /\ impl = "mem"
    /\ resp.query = "react" /\ resp.filters = SearchFilters("Bangalore", "")
    /\ Len(resp.list) = 1 /\ resp.list[1].location = "Remote"

\* With a query free of % and _ and no filter, both classes answer as C15 says.
C15_QueryAlone ==
    (IsSearch /\ resp.query # "_" /\ resp.filters \in {NoSearchFilters, SearchFilters("", "")})
        => C15_SearchAppliesQueryAndFilters

----------------------------------------------------------------------------
(* Properties of the engine's effects, under SpecEngine *)

\* No stored internship carries a matchScore, no stored project a score.
NoScoreStored ==
    /\ \A i \in DOMAIN internships : "matchScore" \notin DOMAIN internships[i]
    /\ \A i \in DOMAIN projects : "score" \notin DOMAIN projects[i]

\* C16: findInternships, getRecommendedProjects, searchInternships and
\* analyzeSkillGap leave the stored students, internships and projects as
\* they were, and no stored internship or project ever carries a score.
C16_EngineLeavesStore ==
    /\ []NoScoreStored
    /\ [][/\ students' = students
          /\ internships' = internships
          /\ projects' = projects]_vars

\* MemStorage has answered a student with the projects in another order than
\* it stores them, and with scores.
C16_Witness ==
    /\ IsRecommend /\ impl = "mem"
    /\ ~NoSkillsOnFile(resp.student)
    /\ resp.list[2].id = 3 /\ resp.list[2].score > 0
    /\ resp.list[3].id = 2
    /\ projects = sampleProjects

----------------------------------------------------------------------------
(* Properties of the student writes, under SpecWrites *)

\* A step of PUT /api/student/:id that stored an update.
UpdateStored == Idle /\ resp'.op = "updateStudent" /\ resp'.success

\* C17: an update of an existing student stores a supplied skills
\* (interests) array as it is, leaves every field the updates lack as it
\* was, and touches no other student; and no step of any operation removes a
\* student.
C17_UpdateReplacesAndKeeps ==
    [][/\ \A id \in StudentIds : students[id].found => students'[id].found
       /\ UpdateStored =>
            LET id == resp'.studentId
                updates == resp'.body
            IN  /\ isArray(updates.skills) => students'[id].skills = updates.skills
                /\ isArray(updates.interests) =>
                      students'[id].interests = updates.interests
                /\ ~Present(updates.name) => students'[id].name = students[id].name
                /\ ~Present(updates.email) => students'[id].email = students[id].email
                /\ ~Present(updates.skills) => students'[id].skills = students[id].skills
                /\ ~Present(updates.interests) =>
                      students'[id].interests = students[id].interests
                /\ students'[id].id = students[id].id
                /\ \A other \in StudentIds \ {id} : students'[other] = students[other]
      ]_vars

\* An update that supplied skills and interests but neither name nor email
\* was stored for a student onboarded under the second email.
C17_Witness ==
    /\ resp.op = "updateStudent" /\ resp.success
    /\ resp.body = StudentBody(Undefined, Undefined, Arr(<<"Linux">>), Arr(<<"Web">>))
    /\ students[resp.studentId] =
          StudentRow(resp.studentId, "Asha", "ravi@example.com", Arr(<<"Linux">>),
                     Arr(<<"Web">>))
    /\ \A id \in StudentIds : students[id].found

\* No two stored students have the same email.
EmailUnique ==
    \A a, b \in StudentIds :
        (a # b /\ students[a].found /\ students[b].found) =>
            students[a].email # students[b].email

\* C18: after any sequence of createStudent and updateStudent calls no two
\* stored students have the same email, and the student getStudentByEmail
\* answers is the only one with that email.
C18_EmailUnique ==
    /\ EmailUnique
    /\ (resp.op = "getStudentByEmail" /\ resp.student.found) =>
          \A id \in StudentIds :
              (students[id].found /\ students[id].email = resp.query) =>
                  students[id] = resp.student

\* MemStorage holds two students of one email, and getStudentByEmail
\* answers the first of them.
C18_TwoStudentsOneEmail ==
    /\ impl = "mem"
    /\ students["s1"].found /\ students["s2"].found
    /\ students["s1"].email = students["s2"].email
    /\ resp.op = "getStudentByEmail" /\ resp.student = students["s1"]

\* The statement of C18 for SupabaseStorage, whose table has the unique
\* constraint.
C18_UniqueInDatabase == impl = "supabase" => C18_EmailUnique

\* A profile write that failed in storage.
WriteFailed == resp.op \in {"createStudent", "updateStudent"} /\ resp.error = "db"

\* C20: a profile write that failed in storage reaches the caller of
\* createStudent or updateStudent as an error, and the HTTP answer is
\* neither success:true nor "Student not found".
C20_WriteFailureSurfaced ==
    WriteFailed =>
        /\ resp.threw
        /\ ~resp.success
        /\ resp.httpError # "Student not found"

\* PUT /api/student/:id answered 404 "Student not found" for a stored
\* student whose update failed in the database.
C20_FailedUpdateNotFound ==
    /\ WriteFailed /\ resp.op = "updateStudent"
    /\ students[resp.studentId].found
    /\ ~resp.threw
    /\ resp.status = 404 /\ resp.httpError = "Student not found"

\* The statement of C20 for createStudent alone, which rethrows.
C20_CreateSurfaces == resp.op = "createStudent" => C20_WriteFailureSurfaced

\* The answer is 404 { success: false, error: "Student not found" }.
AnsweredNotFound(r) ==
    r.status = 404 /\ ~r.success /\ r.httpError = "Student not found"

\* C21: GET /api/student/email/:email for an email no stored student has,
\* and PUT /api/student/:id for an id no stored student has, answer 404 with
\* success: false and "Student not found"; the PUT leaves the store as it
\* was.
C21_UnknownStudentReported ==
    /\ [](/\ (/\ resp.op = "getStudentByEmail"
              /\ \A id \in StudentIds :
                    ~(students[id].found /\ students[id].email = resp.query))
             => AnsweredNotFound(resp)
          /\ (resp.op = "updateStudent" /\ ~students[resp.studentId].found)
             => AnsweredNotFound(resp))
    /\ [][(Idle /\ resp'.op = "updateStudent" /\ ~students[resp'.studentId].found)
             => students' = students]_vars

\* An update of an id nobody has was answered 404 while another student is
\* stored, and no student was created for the id.
C21_Witness ==
    /\ resp.op = "updateStudent" /\ resp.error = ""
    /\ ~students[resp.studentId].found
    /\ \E id \in StudentIds : students[id].found
    /\ resp.body.skills = Arr(<<"Linux">>)
    /\ AnsweredNotFound(resp)

----------------------------------------------------------------------------
(* Properties of the read paths, under SpecReads *)

ReadOps ==
    {"getInternships", "getProjects", "searchInternships", "findInternships",
     "getRecommendedProjects"}

\* A read path was called and a query it ran failed.
ReadFailed == resp.op \in ReadOps /\ resp.failed # {}

\* C19 as stated: when a query fails, each of the five read paths returns
\* an empty list and raises no error.
C19_Original == ReadFailed => (~resp.threw /\ resp.list = <<>>)

\* C19: when a query fails, none of the five read paths raises an error and
\* the route that called it (searchInternships has none) answers success.
\* The list is empty, except that getRecommendedProjects, when only its
\* student query failed, answers as for an unknown student: the whole
\* catalog in some order.
C19_ReadsRecover ==
    ReadFailed =>
        /\ ~resp.threw
        /\ resp.route # "" => (resp.status = 200 /\ resp.success)
        /\ IF resp.op = "getRecommendedProjects" /\ "projects" \notin resp.failed
           THEN resp.student = NoStudent /\ resp.list \in Shuffles(resp.catalog)
           ELSE resp.list = <<>>

\* getRecommendedProjects answered projects for a stored student with
\* skills, whose row it failed to read.
C19_Witness ==
    /\ resp.op = "getRecommendedProjects" /\ resp.failed = {"students"}
    /\ resp.list # <<>>
    /\ students[resp.studentId].found
    /\ students[resp.studentId].skills = Arr(<<"React">>)

\* Both queries of findInternships failed and the answer is an empty list.
C19_BothQueriesFailed ==
    /\ resp.op = "findInternships" /\ resp.failed = {"students", "internships"}
    /\ resp.list = <<>> /\ resp.success
    /\ students[resp.studentId].found /\ internships # <<>>

----------------------------------------------------------------------------
(* Properties of concurrent profile writes, under SpecRace *)

RECURSIVE Replay(_, _, _)
\* The store after the first n of the writes executed, run one at a time in
\* the order in which they executed.
Replay(store, applied, n) ==
    IF n = 0 THEN store
    ELSE WriteOutcome(Replay(store, applied, n - 1), race.requests[applied[n]]).store

\* The positions in race.applied of the stored updates that supplied a
\* field of the first student.
Suppliers(supplies(_)) ==
    {n \in DOMAIN race.applied :
        LET req == race.requests[race.applied[n]]
        IN  req.kind = "update" /\ req.status = 200 /\ supplies(req.body)}

Last(S) == CHOOSE n \in S : \A m \in S : m <= n

\* C22: whatever the interleaving of the writes in flight, the store is what
\* the executed writes give when run one at a time in their order of
\* execution; name and skills of the student hold what the last update
\* that supplied them gave; and an update is turned down only if, in that
\* order, the student is not there or the database failed.
C22_LastWriterWins ==
    LET one == IdOrder[1]
        names == Suppliers(LAMBDA b : Present(b.name))
        skills == Suppliers(LAMBDA b : isArray(b.skills))
    IN  /\ students = Replay(race.initial, race.applied, Len(race.applied))
        /\ names # {} =>
              students[one].name = StrOf(race.requests[race.applied[Last(names)]].body.name)
        /\ skills # {} =>
              students[one].skills = race.requests[race.applied[Last(skills)]].body.skills
        /\ \A n \in DOMAIN race.applied :
              LET req == race.requests[race.applied[n]]
              IN  (req.kind = "update" /\ req.status # 200) =>
                     \/ req.fail
                     \/ ~Replay(race.initial, race.applied, n - 1)[req.id].found

\* Two updates of the stored student were in flight together and ran in
\* the order opposite to their arrival: the later one gave the name, the
\* earlier one the skills, and the profile holds both.
C22_Witness ==
    /\ race.applied = <<2, 1>>
    /\ race.initial[IdOrder[1]].found
    /\ race.requests[2].body = StudentBody(Str("Ravi"), Undefined, Undefined, Undefined)
    /\ race.requests[1].body = StudentBody(Undefined, Undefined, Arr(<<"Linux">>), Undefined)
    /\ race.requests[1].status = 200 /\ race.requests[2].status = 200
    /\ students[IdOrder[1]].name = "Ravi"
    /\ students[IdOrder[1]].skills = Arr(<<"Linux">>)

----------------------------------------------------------------------------
(* Properties of the older matcher, under SpecLoose *)

\* C23: every matchScore the older findInternships returns is between 0 and
\* 100, whatever the skills and the requiredSkills, and the list is in
\* non-increasing order of the scores with the bonus included.
C23_LooseScoreBounded ==
    (resp.op = "findInternships" /\ impl = "memOld") =>
        /\ \A i \in DOMAIN resp.list : resp.list[i].matchScore \in 0..100
        /\ \A i, j \in DOMAIN resp.list :
              i < j => resp.list[i].matchScore >= resp.list[j].matchScore

\* A student whose two skills both match the one required skill (200 percent
\* before the cap) is answered 100, ahead of an internship that requires
\* nothing (75 and its bonus).
C23_Witness ==
    /\ resp.op = "findInternships" /\ impl = "memOld"
    /\ resp.student.found /\ resp.student.skills = Arr(<<"React", "react">>)
    /\ Len(resp.list) >= 2
    /\ resp.list[1].requiredSkills = Arr(<<"React">>) /\ resp.list[1].matchScore = 100
    /\ resp.list[2].requiredSkills = Arr(<<>>) /\ resp.list[2].matchScore = 89

----------------------------------------------------------------------------
(* Properties of POST /api/find-internships, under SpecDispatch *)

\* The lists findInternships can return for what it read.
StoredMatchings(student, catalog) ==
    CASE impl = "supabase" -> {SupabaseStorage_findInternships(student, catalog)}
      [] impl = "mem" -> {MemStorage_findInternships(student, catalog)}
      [] impl = "memOld" ->
            {OldMemStorage_findInternships(student, catalog, draws) :
                draws \in [DOMAIN catalog -> BonusDraws]}

\* The row passes the filters of the body: its location contains
\* filters.location, and contains "remote" when filters.remote is true.
PassesFilters(row, filters) ==
    /\ (filters.present /\ filters.location # "") =>
          Contains(row.location, filters.location)
    /\ (filters.present /\ filters.remote = "true") => Contains(row.location, "remote")

\* C24: POST /api/find-internships answers a body with a studentId by the
\* stored matching of that student, whatever profile and filters it
\* carries; a body without studentId and with a profile by the catalog rows
\* that pass the filters, each with a score, in non-increasing score; and a
\* body with neither by all internships, unscored.
C24_DispatchPrecedence ==
    resp.route = "POST /api/find-internships" =>
        LET posted == resp.posted
        IN  /\ resp.status = 200 /\ resp.success
            /\ posted.studentId # "" =>
                  /\ resp.op = "findInternships" /\ resp.studentId = posted.studentId
                  /\ resp.list \in StoredMatchings(resp.student, resp.catalog)
                  /\ \A i \in DOMAIN resp.list : "score" \notin DOMAIN resp.list[i]
            /\ (posted.studentId = "" /\ posted.profile.present) =>
                  /\ resp.op = "profileMatch"
                  /\ {resp.list[i].id : i \in DOMAIN resp.list} =
                        {resp.catalog[k].id : k \in
                            {k \in DOMAIN resp.catalog :
                                PassesFilters(resp.catalog[k], posted.filters)}}
                  /\ \A i, j \in DOMAIN resp.list :
                        i < j => /\ resp.list[i].id # resp.list[j].id
                                 /\ resp.list[i].score >= resp.list[j].score
                  /\ OrEmpty(posted.profile.skills) = <<>> =>
                        \A i \in DOMAIN resp.list : resp.list[i].score = 0
            /\ (posted.studentId = "" /\ ~posted.profile.present) =>
                  /\ resp.op = "getInternships"
                  /\ resp.list = resp.catalog

\* A body with studentId, a Python profile and a Bangalore filter was
\* answered with the stored matching of the React student: a remote
\* internship with a matchScore.
C24_Witness ==
    /\ resp.route = "POST /api/find-internships"
    /\ resp.posted.studentId = IdOrder[1]
    /\ resp.posted.profile = [present |-> TRUE, skills |-> Arr(<<"Python">>)]
    /\ resp.posted.filters = [present |-> TRUE, location |-> "Bangalore", remote |-> "false"]
    /\ resp.student.found /\ resp.student.skills = Arr(<<"React">>)
    /\ resp.list # <<>>
    /\ resp.list[1].location = "Remote" /\ resp.list[1].matchScore > 0

\* A body with a profile and remote: false was answered with remote
\* internships among the others.
C24_RemoteFalseKeepsAll ==
    /\ resp.op = "profileMatch"
    /\ resp.posted.filters = [present |-> TRUE, location |-> "", remote |-> "false"]
    /\ Len(resp.list) = Len(resp.catalog) /\ Len(resp.list) >= 2
    /\ \E i \in DOMAIN resp.list : resp.list[i].location = "Remote"

----------------------------------------------------------------------------
(* Properties of the onboarding wizard, under SpecWizard *)

\* The payload has a name of two characters or more, an email, a year from
\* 1 to 4, a skill and an interest.
PayloadComplete(data) ==
    /\ Present(data.name) /\ Len(Chars[StrOf(data.name)]) >= 2
    /\ Present(data.email) /\ IsEmail(StrOf(data.email))
    /\ data.year.kind = "number" /\ data.year.items[1] \in 1..4
    /\ isArray(data.skills) /\ Len(data.skills.items) >= 1
    /\ isArray(data.interests) /\ Len(data.interests.items) >= 1

\* A create-student request was issued from step 3 with a complete payload.
C25_PayloadFromStepThree ==
    wizard.sentFrom # 0 => (wizard.sentFrom = 3 /\ PayloadComplete(wizard.sent))

\* The wizard steps forward by one, on valid data of the step it leaves,
\* and back by one, keeping the data collected and the forms' values.
C25_StepsOneAtATime ==
    /\ wizard'.currentStep > wizard.currentStep =>
          /\ wizard'.currentStep = wizard.currentStep + 1
          /\ StepValid(wizard, wizard.currentStep)
          /\ wizard'.studentData = Spread(wizard.studentData,
                                          StepData(wizard, wizard.currentStep))
    /\ wizard'.currentStep < wizard.currentStep =>
          /\ wizard'.currentStep = wizard.currentStep - 1
          /\ wizard'.studentData = wizard.studentData
          /\ wizard'.personal = wizard.personal
          /\ wizard'.skills = wizard.skills
          /\ wizard'.interests = wizard.interests
          /\ wizard'.sent = wizard.sent

\* C25: the wizard's step stays within 1..3, moves forward only on a valid
\* submit of the current step and back only by one step; the create-student
\* request is issued only from step 3 with validated name, email and year
\* (1 to 4), at least one skill and one interest; Back loses no data.
C25_WizardContract ==
    /\ [](wizard.currentStep \in 1..3 /\ C25_PayloadFromStepThree)
    /\ [][C25_StepsOneAtATime]_vars

\* The processStep component has sent a payload without a year.
C25_PayloadWithoutYear ==
    /\ wizard.variant = "processStep" /\ wizard.backType = "button"
    /\ wizard.sentFrom = 3
    /\ ~Present(wizard.sent.year)
    /\ Present(wizard.sent.name) /\ isArray(wizard.sent.skills)

\* The statement of C25 for pages/Onboarding.tsx.
C25_OnboardingTsx ==
    /\ [](wizard.variant = "Onboarding.tsx" =>
             (wizard.currentStep \in 1..3 /\ C25_PayloadFromStepThree))
    /\ [][wizard.variant = "Onboarding.tsx" => C25_StepsOneAtATime]_vars

\* pages/Onboarding.tsx has sent a complete payload, with the year picked
\* in step 1.
C25_OnboardingTsxSent ==
    /\ wizard.variant = "Onboarding.tsx" /\ wizard.sentFrom = 3
    /\ PayloadComplete(wizard.sent)
    /\ wizard.sent.year = Num(4)

----------------------------------------------------------------------------
(* Properties of the on-the-fly profile matching, under SpecProfile *)

\* C26: every score of the on-the-fly profile matching lies between 0 and 1
\* (0 and 100 hundredths), whatever the profile skills and the
\* requiredSkills, so the badge Math.round(score * 100) never shows more
\* than 100.
C26_ScoreIsFraction ==
    resp.op = "profileMatch" =>
        \A i \in DOMAIN resp.list : resp.list[i].score \in 0..100

\* A profile whose skills each match a different required skill, or none,
\* has been scored.
C26_NoSkillMatchesTwice ==
    ~(/\ resp.op = "profileMatch"
      /\ resp.posted.profile.skills \in {Arr(<<"React", "Java">>), Arr(<<"Java">>)}
      /\ \E i \in DOMAIN resp.list : resp.list[i].score \notin 0..100)

\* A required skill counted once for each profile skill it matches: the
\* score is above 1.
C26_ScoreAboveOne ==
    \E i \in DOMAIN resp.list :
        /\ resp.op = "profileMatch"
        /\ resp.list[i].score > 100

----------------------------------------------------------------------------
(* Properties of the ids of a MemStorage, under SpecIds *)

\* C27: in a MemStorage every stored student's id is the key it is stored
\* under, after any createStudent and updateStudent, updates whose body
\* carries an id included: getStudent(id) returns a student whose id is id.
C27_IdIsKey ==
    \A id \in StudentIds : students[id].found => students[id].id = id

\* Only an update whose body carries the id of another student parts a
\* stored id from its key.
C27_OnlyForeignIdBreaks ==
    [][(C27_IdIsKey /\ ~C27_IdIsKey') =>
          /\ resp'.op = "updateStudent"
          /\ "id" \in DOMAIN resp'.body
          /\ StrOf(resp'.body.id) # resp'.studentId]_vars

\* A student stored under one id and carrying another.
C27_StoredUnderAnotherId ==
    \E id \in StudentIds : students[id].found /\ students[id].id # id

----------------------------------------------------------------------------
(* Properties of the student lookup, under SpecLookup *)

\* The call took the branch of a student that does not exist.
TookUnknownStudentBranch ==
    \/ resp.op = "analyzeSkillGap" /\ resp.threw /\ resp.error = "Student not found"
    \/ resp.op = "findInternships" /\ ~resp.student.found

C28_SoundWhenQuerySucceeds ==
    (resp.studentId # "" /\ TookUnknownStudentBranch /\ "students" \notin resp.failed)
        => ~students[resp.studentId].found

\* analyzeSkillGap has reported "Student not found" for a student the store
\* holds.
C28_ExistingReportedMissing ==
    /\ resp.op = "analyzeSkillGap" /\ resp.error = "Student not found"
    /\ resp.studentId # "" /\ students[resp.studentId].found

\* findInternships has returned the unknown-student result for a student
\* the store holds.
C28_ExistingMatchedAsUnknown ==
    /\ resp.op = "findInternships" /\ ~resp.student.found /\ resp.list = <<>>
    /\ students[resp.studentId].found

\* The unknown-student branch taken for an id the store does not hold.
C28_AbsentReportedMissing ==
    /\ resp.studentId # "" /\ TookUnknownStudentBranch
    /\ ~students[resp.studentId].found

----------------------------------------------------------------------------
(* Properties of the internship finder page, under SpecFinder *)

\* The page shows the answer of the request issued last.
ShowsLatest ==
    LET last == finder.requests[Len(finder.requests)]
    IN  /\ finder.internships = (IF last.ok THEN last.internships ELSE <<>>)
        /\ finder.error = (IF last.ok THEN "" ELSE last.message)

\* C29: whatever the interleaving of overlapping loadJobs calls and their
\* answers, once every request has completed the page shows the list and
\* the error of the request issued last, and loading is true whenever a
\* request is in flight.
C29_LatestRequestShown ==
    /\ (finder.requests # <<>> /\ Pending(finder) = {}) => ShowsLatest
    /\ Pending(finder) # {} => finder.loading

\* Loads that never overlap show the latest answer and the loading state.
C29_SequentialLoads ==
    ~finder.overlapped =>
        /\ (finder.requests # <<>> /\ Pending(finder) = {}) => ShowsLatest
        /\ Pending(finder) # {} => finder.loading

\* Two loads have run one after the other and both have completed.
C29_TwoSequentialLoads ==
    /\ ~finder.overlapped /\ Len(finder.requests) = 2 /\ Pending(finder) = {}

\* All requests are complete and the page shows an answer that is not the
\* last request's.
C29_StaleAnswerShown ==
    /\ finder.requests # <<>> /\ Pending(finder) = {} /\ ~ShowsLatest

\* A request is in flight and the page does not show loading.
C29_InFlightNotLoading ==
    /\ Pending(finder) # {} /\ ~finder.loading

----------------------------------------------------------------------------
(* Properties of the real-time subscription, under SpecFeed *)

\* C30: once the function getRealTimeInternships returned has been called,
\* the callback is never invoked again, even when a change event's
\* getInternships was pending at that moment.
C30_SilentAfterUnsubscribe == feed.lateCalls = 0

\* With no handler waiting for its getInternships when unsubscribe is
\* called, the callback is not invoked afterwards.
C30_SilentWhenNoFetchPending ==
    (feed.unsubscribed /\ feed.fetchingAtUnsubscribe = 0) => feed.lateCalls = 0

\* The callback has been invoked and unsubscribe called with no handler
\* waiting, with rows in the table that no handler has reported.
C30_UnsubscribedAtRest ==
    /\ feed.unsubscribed /\ feed.fetchingAtUnsubscribe = 0
    /\ feed.calls > 0 /\ Len(internships) > feed.calls

\* The callback invoked after unsubscribe, by a handler that was waiting
\* for its getInternships.
C30_CallbackAfterUnsubscribe ==
    /\ feed.unsubscribed /\ feed.fetchingAtUnsubscribe > 0 /\ feed.lateCalls > 0

====
